---------------------------- MODULE Spec2Model ----------------------------
(***************************************************************************)
(* A model of the labelling engine of azureenergylabelerlib:               *)
(*   EnergyLabeler.energy_label      (entities.py, 779-825)                *)
(*   ResourceGroup.get_energy_label  (entities.py, 423-449)                *)
(*   Subscription.get_energy_label   (entities.py, 369-395)                *)
(*   Tenant.subscriptions_to_be_labeled and                                *)
(*   Tenant.get_energy_label_of_targeted_subscriptions                     *)
(*                                   (entities.py, 192-290)                *)
(* A finding is its measurement_data row (entities.py, 602-610); a set of  *)
(* findings (a DataFrame, whose row order no computation reads) is a bag   *)
(* of rows.  A threshold table is a sequence of rules, a rule a function   *)
(* from its keys to its values, so that a rule without a key (the shipped  *)
(* RESOURCE_GROUP_THRESHOLDS has no 'days_open_less_than') is a rule whose *)
(* DOMAIN lacks it and whose lookup raises KeyError.                       *)
(* Further specifications model the validation of subscription ids         *)
(* (validations.py, 56-135), the threshold schemas (schemas.py, 51-64),    *)
(* the construction of AzureEnergyLabeler and its findings property        *)
(* (azureenergylabelerlib.py, 105-166), DefenderForCloud (entities.py,     *)
(* 76-127) and the properties of Finding (entities.py, 454-610).           *)
(***************************************************************************)
EXTENDS Integers, Sequences, FiniteSets, Bags, TLC

VARIABLES
    findings,                             \* the findings given to the labelled object
    threshold,                            \* EnergyLabeler.threshold
    name,                                 \* EnergyLabeler.name: the labelled object
    energy_label,                         \* the label last returned, None before
    thresholds,                           \* Tenant.thresholds
    allowed_subscription_ids,             \* Tenant.allowed_subscription_ids
    denied_subscription_ids,              \* Tenant.denied_subscription_ids
    _subscriptions_to_be_labeled,         \* Tenant._subscriptions_to_be_labeled
    _targeted_subscriptions_energy_label, \* Tenant._targeted_subscriptions_energy_label
    label_counter,                        \* label_counter: the labels of the labeled subscriptions
    subscription_sums,                    \* subscription_sums when the walk of the tenant table ends
    coverage,                             \* one coverage test: its operands and its outcome
    arguments,                            \* the arguments of the call under study
    raised                                \* the exception that call raised: "" when none,
                                          \* "not called" before a call made once

vars == <<findings, threshold, name, energy_label, thresholds,
          allowed_subscription_ids, denied_subscription_ids,
          _subscriptions_to_be_labeled, _targeted_subscriptions_energy_label,
          label_counter, subscription_sums, coverage, arguments, raised>>

\* Python's None, and a value that is not None: an attribute that is None or a
\* record is a sequence of at most one record.
None == <<>>
Some(x) == <<x>>
Value(option) == option[1]

(***************************************************************************)
(* Bounds of the model.                                                    *)
(***************************************************************************)
MaxFindings == 2          \* findings given to EnergyLabeler in Spec
MaxRules == 2             \* rules of a threshold table in Spec
MaxDaysOpen == 1          \* days_open of a finding in Spec

(***************************************************************************)
(* labels.py: ResourceGroupEnergyLabel and SubscriptionEnergyLabel, two    *)
(* dataclasses with the same fields and the same defaults.                 *)
(***************************************************************************)
DEFAULT_FINDINGS == 9999

EnergyLabelClass(label, high, medium, low, days) ==
    [exception |-> "",
     label |-> label,
     number_of_high_findings |-> high,
     number_of_medium_findings |-> medium,
     number_of_low_findings |-> low,
     max_days_open |-> days]

\* A call that ends in an exception returns no label.
Raise(exception) ==
    [exception |-> exception,
     label |-> "",
     number_of_high_findings |-> 0,
     number_of_medium_findings |-> 0,
     number_of_low_findings |-> 0,
     max_days_open |-> 0]

(***************************************************************************)
(* Finding.measurement_data: the row of a finding.                         *)
(***************************************************************************)
measurement_data(subscription_id, resource_group, severity, days_open) ==
    [Subscription_ID |-> subscription_id,
     Resource_Group_Name |-> resource_group,
     Severity |-> severity,
     Days_Open |-> days_open]

\* The rows of a bag of findings whose severity is one of severities:
\* df[(df['Severity'] == ...) | ...].
RowsOfSeverity(df, severities) ==
    LET kept == {row \in BagToSet(df) : row.Severity \in severities}
    IN  [row \in kept |-> df[row]]

\* df[df['Severity'] == severity].shape[0]
NumberOfFindings(df, severity) ==
    BagCardinality(RowsOfSeverity(df, {severity}))

\* max(df['Days Open'])
RECURSIVE MaxOf(_)
MaxOf(S) ==
    LET x == CHOOSE y \in S : TRUE
    IN  IF S = {x} THEN x
        ELSE LET rest == MaxOf(S \ {x})
             IN  IF x > rest THEN x ELSE rest

(***************************************************************************)
(* EnergyLabeler.energy_label, lines 784-792: the counts and the age.      *)
(***************************************************************************)
open_findings_low_or_higher(df) ==
    RowsOfSeverity(df, {"Low", "Medium", "High"})

\* The age taken over every finding, whatever its severity.
max_days_open_AllFindings(df) ==
    LET rows == BagToSet(df)
    IN  IF rows # {} THEN MaxOf({row.Days_Open : row \in rows}) ELSE 0

max_days_open(df) ==
    LET rows == BagToSet(open_findings_low_or_higher(df))
    IN  IF rows # {} THEN MaxOf({row.Days_Open : row \in rows}) ELSE 0

\* all([high <= threshold['high'], ..., max_days_open < threshold['days_open_less_than']])
RuleKeys == {"high", "medium", "low", "days_open_less_than"}

\* The test with the ceiling of the High findings read as a floor.
RuleMatches_HighAtLeast(rule, high, medium, low, days) ==
    /\ high >= rule["high"]
    /\ medium <= rule["medium"]
    /\ low <= rule["low"]
    /\ days < rule["days_open_less_than"]

RuleMatches(rule, high, medium, low, days) ==
    /\ high <= rule["high"]
    /\ medium <= rule["medium"]
    /\ low <= rule["low"]
    /\ days < rule["days_open_less_than"]

(***************************************************************************)
(* EnergyLabeler.energy_label, lines 802-825: the walk over the table.     *)
(* The fallback 'F' is assigned in the body of the loop, after the test of *)
(* each rule that does not match, so a table without rules assigns nothing *)
(* and the return statement, which is outside the try, raises              *)
(* UnboundLocalError.  A rule that lacks a key raises KeyError inside the  *)
(* try: the handler returns energy_label_class('F', 0, 0, 0).              *)
(***************************************************************************)
\* The walk without its break: every rule overwrites the label, the last one decides.
RECURSIVE WalkThreshold_NoBreak(_, _, _, _, _, _)
WalkThreshold_NoBreak(table, i, high, medium, low, days) ==
    IF i > Len(table)
    THEN IF Len(table) = 0
         THEN Raise("UnboundLocalError")
         ELSE EnergyLabelClass("F", high, medium, low, days)
    ELSE IF ~(RuleKeys \subseteq DOMAIN table[i])
         THEN EnergyLabelClass("F", 0, 0, 0, DEFAULT_FINDINGS)
         ELSE IF i < Len(table)
              THEN WalkThreshold_NoBreak(table, i + 1, high, medium, low, days)
              ELSE IF RuleMatches(table[i], high, medium, low, days)
                   THEN EnergyLabelClass(table[i]["label"], high, medium, low, days)
                   ELSE EnergyLabelClass("F", high, medium, low, days)

RECURSIVE WalkThreshold(_, _, _, _, _, _)
WalkThreshold(table, i, high, medium, low, days) ==
    IF i > Len(table)
    THEN IF Len(table) = 0
         THEN Raise("UnboundLocalError")
         ELSE EnergyLabelClass("F", high, medium, low, days)
    ELSE IF ~(RuleKeys \subseteq DOMAIN table[i])
         THEN EnergyLabelClass("F", 0, 0, 0, DEFAULT_FINDINGS)
         ELSE IF RuleMatches(table[i], high, medium, low, days)
              THEN EnergyLabelClass(table[i]["label"], high, medium, low, days)
              ELSE WalkThreshold(table, i + 1, high, medium, low, days)

\* The label of an empty finding set left to the defaults of the dataclass.
EmptyFindingsLabel_Default ==
    EnergyLabelClass("F", DEFAULT_FINDINGS, DEFAULT_FINDINGS, DEFAULT_FINDINGS, DEFAULT_FINDINGS)

\* The label of an empty finding set: energy_label_class('A', 0, 0, 0).
EmptyFindingsLabel ==
    EnergyLabelClass("A", 0, 0, 0, DEFAULT_FINDINGS)

EnergyLabeler_energy_label(df, table) ==
    IF df = EmptyBag
    THEN EmptyFindingsLabel
    ELSE WalkThreshold(table, 1,
                       NumberOfFindings(df, "High"),
                       NumberOfFindings(df, "Medium"),
                       NumberOfFindings(df, "Low"),
                       max_days_open(df))

(***************************************************************************)
(* The inputs of Spec: threshold tables accepted by                        *)
(* resource_group_thresholds_schema (schemas.py, 51-55) and findings.      *)
(***************************************************************************)
SchemaLabels == {"A", "B", "C", "D", "E"}

resource_group_thresholds_schema(table) ==
    \A i \in 1..Len(table) :
        /\ DOMAIN table[i] = RuleKeys \cup {"label"}
        /\ table[i]["label"] \in SchemaLabels
        /\ table[i]["high"] \in Nat
        /\ table[i]["medium"] \in Nat
        /\ table[i]["low"] \in Nat
        /\ table[i]["days_open_less_than"] \in Nat \ {0}

Rule(label, high, medium, low, days) ==
    [key \in RuleKeys \cup {"label"} |->
        CASE key = "label" -> label
          [] key = "high" -> high
          [] key = "medium" -> medium
          [] key = "low" -> low
          [] OTHER -> days]

\* The ceilings of the rules of Spec: <<high, medium, low, days_open_less_than>>.
Ceilings ==
    {<<0, 0, 0, 1>>, <<1, 0, 0, 1>>, <<0, 1, 0, 1>>, <<0, 0, 1, 1>>,
     <<0, 0, 0, 2>>, <<1, 1, 1, 2>>}

RuleLabels == {"A", "B"}

Rules == {Rule(l, c[1], c[2], c[3], c[4]) : l \in RuleLabels, c \in Ceilings}

Tables == UNION {[1..n -> Rules] : n \in 0..MaxRules}

Severities == {"High", "Medium", "Low", "Informational"}

SpecRows ==
    {measurement_data("sub1", "rg1", s, d) : s \in Severities, d \in 0..MaxDaysOpen}

(***************************************************************************)
(* Spec: one EnergyLabeler.  Its finding set grows one finding at a time   *)
(* (a labeler is built for each finding set) and energy_label is read.     *)
(***************************************************************************)
leafVars == <<findings, threshold, name, energy_label>>

tenantVars == <<thresholds, allowed_subscription_ids, denied_subscription_ids,
                _subscriptions_to_be_labeled, _targeted_subscriptions_energy_label,
                label_counter, subscription_sums>>

callVars == <<arguments, raised>>

\* No call with arguments of its own is under study.
CallUnused ==
    /\ arguments = <<>>
    /\ raised = ""

\* No tenant is built and no coverage test is made.
TenantUnused ==
    /\ thresholds = <<>>
    /\ allowed_subscription_ids = <<>>
    /\ denied_subscription_ids = <<>>
    /\ _subscriptions_to_be_labeled = None
    /\ _targeted_subscriptions_energy_label = None
    /\ label_counter = EmptyBag
    /\ subscription_sums = <<>>
    /\ coverage = <<>>

Init ==
    /\ findings = EmptyBag
    /\ threshold \in Tables
    /\ resource_group_thresholds_schema(threshold)
    /\ name = "rg1"
    /\ energy_label = None
    /\ TenantUnused
    /\ CallUnused

AddFinding ==
    /\ BagCardinality(findings) < MaxFindings
    /\ \E row \in SpecRows : findings' = findings (+) SetToBag({row})
    /\ energy_label' = None
    /\ UNCHANGED <<threshold, name, tenantVars, coverage, callVars>>

EnergyLabel ==
    /\ energy_label' = Some(EnergyLabeler_energy_label(findings, threshold))
    /\ UNCHANGED <<findings, threshold, name, tenantVars, coverage, callVars>>

Next == AddFinding \/ EnergyLabel

Spec == Init /\ [][Next]_vars


(***************************************************************************)
(* SpecResourceGroup: one ResourceGroup with the table it is built with,   *)
(* self._threshold = RESOURCE_GROUP_THRESHOLDS, as configuration.py ships  *)
(* it: five rules with the keys label, high, medium and low.               *)
(***************************************************************************)
MaxDefaultFindings == 12  \* findings given to a ResourceGroup in SpecResourceGroup

DefaultRule(label, high, medium, low) ==
    [key \in {"label", "high", "medium", "low"} |->
        CASE key = "label" -> label
          [] key = "high" -> high
          [] key = "medium" -> medium
          [] OTHER -> low]

RESOURCE_GROUP_THRESHOLDS ==
    <<DefaultRule("A", 0, 10, 20),
      DefaultRule("B", 10, 20, 40),
      DefaultRule("C", 15, 30, 60),
      DefaultRule("D", 20, 40, 80),
      DefaultRule("E", 25, 50, 100)>>

\* str.lower() on the names of the model
Lower(string) ==
    CASE string = "RG2" -> "rg2"
      [] string = "RG1" -> "rg1"
      [] string = "Skipped" -> "skipped"
      [] string = "Healthy" -> "healthy"
      [] OTHER -> string

\* ResourceGroup.get_open_findings: df[df['Resource Group Name'] == self.name.lower()]
ResourceGroup_get_open_findings(df, resource_group_name) ==
    LET kept == {row \in BagToSet(df) :
                    row.Resource_Group_Name = Lower(resource_group_name)}
    IN  [row \in kept |-> df[row]]

\* ResourceGroup.get_energy_label
ResourceGroup_get_energy_label(df, resource_group_name, table) ==
    EnergyLabeler_energy_label(ResourceGroup_get_open_findings(df, resource_group_name),
                               table)

ResourceGroupNames == {"rg1", "RG2"}

ResourceGroupRows ==
    {measurement_data("sub1", rg, s, 0) : rg \in {"rg1", "rg2"},
                                          s \in {"High", "Medium", "Low"}}

InitResourceGroup ==
    /\ findings = EmptyBag
    /\ threshold = RESOURCE_GROUP_THRESHOLDS
    /\ name \in ResourceGroupNames
    /\ energy_label = None
    /\ TenantUnused
    /\ CallUnused

AddResourceGroupFinding ==
    /\ BagCardinality(findings) < MaxDefaultFindings
    /\ \E row \in ResourceGroupRows : findings' = findings (+) SetToBag({row})
    /\ energy_label' = None
    /\ UNCHANGED <<threshold, name, tenantVars, coverage, callVars>>

ResourceGroupEnergyLabel ==
    /\ energy_label' = Some(ResourceGroup_get_energy_label(findings, name, threshold))
    /\ UNCHANGED <<findings, threshold, name, tenantVars, coverage, callVars>>

NextResourceGroup == AddResourceGroupFinding \/ ResourceGroupEnergyLabel

SpecResourceGroup == InitResourceGroup /\ [][NextResourceGroup]_vars


(***************************************************************************)
(* The test of the tenant walk (entities.py, 277):                         *)
(*     sum(subscription_sums) / number_of_subscriptions * 100 >= percentage*)
(* Python divides two ints into a float (IEEE 754 binary64, the quotient   *)
(* rounded to nearest, ties to even), multiplies the float by 100 (rounded *)
(* again) and compares the product with the int.  A float here is          *)
(* m * 2^(e - 52), its significand m written in five limbs: the first      *)
(* holds the bits from 2^52 up, the other four hold 13 bits each.          *)
(***************************************************************************)
FloatZero == [m |-> <<0, 0, 0, 0, 0>>, e |-> 0]

\* The significand m, plus unit (added to the last limb) when it is rounded up.
RoundedUp(m, up, unit) ==
    LET s5 == m[5] + (IF up THEN unit ELSE 0)
        s4 == m[4] + (s5 \div 8192)
        s3 == m[3] + (s4 \div 8192)
        s2 == m[2] + (s3 \div 8192)
        s1 == m[1] + (s2 \div 8192)
    IN  <<s1, s2 % 8192, s3 % 8192, s4 % 8192, s5 % 8192>>

\* int / int: the quotient k / n (k >= 0, n > 0) to 53 bits.
FloatDiv(k, n) ==
    IF k = 0 THEN FloatZero
    ELSE LET e == CHOOSE x \in -20..20 :
                      IF x >= 0 THEN n * 2^x <= k /\ k < 2 * n * 2^x
                                ELSE n <= k * 2^(-x) /\ k * 2^(-x) < 2 * n
             num == IF e >= 0 THEN k ELSE k * 2^(-e)
             den == IF e >= 0 THEN n * 2^e ELSE n
             r0 == num - den
             d1 == (r0 * 8192) \div den
             r1 == (r0 * 8192) % den
             d2 == (r1 * 8192) \div den
             r2 == (r1 * 8192) % den
             d3 == (r2 * 8192) \div den
             r3 == (r2 * 8192) % den
             d4 == (r3 * 8192) \div den
             r4 == (r3 * 8192) % den
             up == 2 * r4 > den \/ (2 * r4 = den /\ d4 % 2 = 1)
         IN  [m |-> RoundedUp(<<1, d1, d2, d3, d4>>, up, 1), e |-> e]

\* float * int: the product x * c (c > 0) to 53 bits.
FloatMulInt(x, c) ==
    IF x.m[1] = 0 THEN FloatZero
    ELSE LET q5 == x.m[5] * c
             q4 == x.m[4] * c + (q5 \div 8192)
             q3 == x.m[3] * c + (q4 \div 8192)
             q2 == x.m[2] * c + (q3 \div 8192)
             q1 == x.m[1] * c + (q2 \div 8192)
             p5 == q5 % 8192
             sh == CHOOSE s \in 0..12 : 2^s <= q1 /\ q1 < 2^(s + 1)
             low == p5 % 2^sh
             up == sh > 0 /\ (\/ 2 * low > 2^sh
                              \/ (2 * low = 2^sh /\ (p5 \div 2^sh) % 2 = 1))
         IN  [m |-> RoundedUp(<<q1, q2 % 8192, q3 % 8192, q4 % 8192, p5 - low>>,
                              up, 2^sh),
              e |-> x.e]

\* float >= int
FloatGEInt(x, p) ==
    IF x.e <= 0 THEN x.m[1] >= p * 2^(-x.e)
    ELSE x.m[1] * 2^x.e + ((x.m[2] * 2^x.e) \div 8192) >= p

\* sum / number_of_subscriptions * 100 >= percentage
CoverageAtLeast(sum, number_of_subscriptions, percentage) ==
    FloatGEInt(FloatMulInt(FloatDiv(sum, number_of_subscriptions), 100), percentage)

(***************************************************************************)
(* SpecCoverage: the test alone, on every count of subscriptions up to     *)
(* MaxSubscriptionCount, every running sum up to the count and every       *)
(* percentage tenant_thresholds_schema accepts (schemas.py, 63-64).        *)
(***************************************************************************)
MaxSubscriptionCount == 50

Percentages == 0..100

InitCoverage ==
    /\ findings = EmptyBag
    /\ threshold = <<>>
    /\ name = ""
    /\ energy_label = None
    /\ thresholds = <<>>
    /\ allowed_subscription_ids = <<>>
    /\ denied_subscription_ids = <<>>
    /\ _subscriptions_to_be_labeled = None
    /\ _targeted_subscriptions_energy_label = None
    /\ label_counter = EmptyBag
    /\ subscription_sums = <<>>
    /\ CallUnused
    /\ \E n \in 1..MaxSubscriptionCount, k \in 0..MaxSubscriptionCount, p \in Percentages :
           /\ k <= n
           /\ coverage = <<k, n, p, "untested">>

CoverageTest ==
    /\ coverage[4] = "untested"
    /\ coverage' = [coverage EXCEPT ![4] =
                       IF CoverageAtLeast(coverage[1], coverage[2], coverage[3])
                       THEN "match" ELSE "no match"]
    /\ UNCHANGED <<leafVars, tenantVars, callVars>>

NextCoverage == CoverageTest

SpecCoverage == InitCoverage /\ [][NextCoverage]_vars


(***************************************************************************)
(* Subscription (entities.py, 310-395).  Its table, self._threshold =      *)
(* SUBSCRIPTION_THRESHOLDS, is imported from configuration.py, which does  *)
(* not define it: the table here has the ceilings of the shipped           *)
(* SUBSCRIPTION_FINDINGS_THRESHOLDS and the day bound 999 of the           *)
(* specification's example table.                                          *)
(***************************************************************************)
SUBSCRIPTION_THRESHOLDS ==
    <<Rule("A", 0, 10, 20, 999),
      Rule("B", 10, 20, 40, 999),
      Rule("C", 15, 30, 60, 999),
      Rule("D", 20, 40, 80, 999),
      Rule("E", 25, 50, 100, 999)>>

\* Subscription.get_open_findings: df[df['Subscription ID'] == self.subscription_id]
Subscription_get_open_findings(df, subscription_id) ==
    LET kept == {row \in BagToSet(df) : row.Subscription_ID = subscription_id}
    IN  [row \in kept |-> df[row]]

\* Subscription.get_energy_label
Subscription_get_energy_label(df, subscription_id, table) ==
    EnergyLabeler_energy_label(Subscription_get_open_findings(df, subscription_id), table)

(***************************************************************************)
(* Tenant (entities.py, 130-307).                                          *)
(***************************************************************************)
MaxSubscriptions == 2     \* subscriptions of the tenant in SpecTenant
MaxTenantRules == 2       \* rules of the tenant table in SpecTenant

SubscriptionIds == <<"sub1", "sub2", "sub3", "sub4">>

\* Tenant.subscriptions: the subscription ids the subscription client lists.
subscriptions == SubSeq(SubscriptionIds, 1, MaxSubscriptions)

\* labels.py: AggregateSubscriptionEnergyLabel
AggregateSubscriptionEnergyLabel(label, best_label, worst_label, subscriptions_measured) ==
    [exception |-> "",
     label |-> label,
     best_label |-> best_label,
     worst_label |-> worst_label,
     subscriptions_measured |-> subscriptions_measured]

\* A call of the tenant that ends in an exception.
RaiseAggregate(exception) ==
    [exception |-> exception,
     label |-> "",
     best_label |-> "",
     worst_label |-> "",
     subscriptions_measured |-> 0]

IsIn(id, ids) == \E i \in DOMAIN ids : ids[i] = id

\* The same filter keeping the subscriptions of the deny list.
get_not_denied_subscriptions_Denied(denied) ==
    LET Denied(id) == IsIn(id, denied)
    IN  SelectSeq(subscriptions, Denied)

get_allowed_subscriptions(allowed) ==
    LET Allowed(id) == IsIn(id, allowed)
    IN  SelectSeq(subscriptions, Allowed)

get_not_denied_subscriptions(denied) ==
    LET NotDenied(id) == ~IsIn(id, denied)
    IN  SelectSeq(subscriptions, NotDenied)

\* The property Tenant.subscriptions_to_be_labeled: the value it returns, which
\* is the value it stores when nothing is stored yet.
subscriptions_to_be_labeled(stored, allowed, denied) ==
    IF stored = None
    THEN IF allowed # <<>>
         THEN get_allowed_subscriptions(allowed)
         ELSE IF denied # <<>>
              THEN get_not_denied_subscriptions(denied)
              ELSE subscriptions
    ELSE Value(stored)

\* sum(subscription_sums)
RECURSIVE SumOf(_)
SumOf(sums) ==
    IF sums = <<>> THEN 0 ELSE sums[Len(sums)] + SumOf(SubSeq(sums, 1, Len(sums) - 1))

\* min(label_counter.keys()) and max(label_counter.keys()): labels are single
\* letters, compared as strings.
LabelOrder == <<"A", "B", "C", "D", "E", "F">>

\* min() taken for max(): the last label of the alphabet among the keys.
MinLabel_Max(counter) ==
    LabelOrder[CHOOSE i \in DOMAIN LabelOrder :
                  /\ LabelOrder[i] \in BagToSet(counter)
                  /\ \A j \in (i + 1)..Len(LabelOrder) : LabelOrder[j] \notin BagToSet(counter)]

MinLabel(counter) ==
    LabelOrder[CHOOSE i \in DOMAIN LabelOrder :
                  /\ LabelOrder[i] \in BagToSet(counter)
                  /\ \A j \in 1..(i - 1) : LabelOrder[j] \notin BagToSet(counter)]

MaxLabel(counter) ==
    LabelOrder[CHOOSE i \in DOMAIN LabelOrder :
                  /\ LabelOrder[i] \in BagToSet(counter)
                  /\ \A j \in (i + 1)..Len(LabelOrder) : LabelOrder[j] \notin BagToSet(counter)]

\* label_counter.get(label, 0)
CounterGet(counter, label) == IF BagIn(label, counter) THEN counter[label] ELSE 0

\* The walk counting, at each rule, only the subscriptions of the rule's label.
RECURSIVE TenantWalk_SingleBucket(_, _, _, _, _)
TenantWalk_SingleBucket(table, i, counter, number_of_subscriptions, sums) ==
    IF i > Len(table)
    THEN [label |-> "F", sums |-> sums, exception |-> ""]
    ELSE LET appended == Append(sums, CounterGet(counter, table[i]["label"]))
         IN  IF number_of_subscriptions = 0
             THEN [label |-> "", sums |-> appended, exception |-> "ZeroDivisionError"]
             ELSE IF CoverageAtLeast(appended[Len(appended)], number_of_subscriptions,
                                     table[i]["percentage"])
                  THEN [label |-> table[i]["label"], sums |-> appended, exception |-> ""]
                  ELSE TenantWalk_SingleBucket(table, i + 1, counter,
                                               number_of_subscriptions, appended)

\* Lines 268-289: the loop over self.thresholds and its else branch.
RECURSIVE TenantWalk(_, _, _, _, _)
TenantWalk(table, i, counter, number_of_subscriptions, sums) ==
    IF i > Len(table)
    THEN [label |-> "F", sums |-> sums, exception |-> ""]
    ELSE LET appended == Append(sums, CounterGet(counter, table[i]["label"]))
         IN  IF number_of_subscriptions = 0
             THEN [label |-> "", sums |-> appended, exception |-> "ZeroDivisionError"]
             ELSE IF CoverageAtLeast(SumOf(appended), number_of_subscriptions,
                                     table[i]["percentage"])
                  THEN [label |-> table[i]["label"], sums |-> appended, exception |-> ""]
                  ELSE TenantWalk(table, i + 1, counter, number_of_subscriptions, appended)

\* Counter([subscription.get_energy_label(findings).label for subscription in
\* labeled_subscriptions])
RECURSIVE LabelCounter(_, _, _)
LabelCounter(df, labeled_subscriptions, table) ==
    IF labeled_subscriptions = <<>>
    THEN EmptyBag
    ELSE LabelCounter(df, Tail(labeled_subscriptions), table)
             (+) SetToBag({Subscription_get_energy_label(df, Head(labeled_subscriptions),
                                                         table).label})

\* The label built after the walk; min() and max() of no labels raise ValueError.
TargetedSubscriptionsEnergyLabel(walk, counter, number_of_subscriptions) ==
    IF walk.exception # ""
    THEN RaiseAggregate(walk.exception)
    ELSE IF counter = EmptyBag
         THEN RaiseAggregate("ValueError")
         ELSE AggregateSubscriptionEnergyLabel(walk.label, MinLabel(counter),
                                               MaxLabel(counter), number_of_subscriptions)

(***************************************************************************)
(* SpecTenant: one Tenant, built with a tenant table accepted by           *)
(* tenant_thresholds_schema (schemas.py, 63-64) and with allow and deny    *)
(* lists accepted by validate_allowed_denied_subscription_ids and          *)
(* _validate_tenant_subscription_ids: sorted, without duplicates, of       *)
(* subscriptions of the tenant, and not both non-empty.                    *)
(***************************************************************************)
TenantRuleLabels == {"A", "B"}
TenantPercentages == {50, 100}

TenantRule(label, percentage) ==
    [key \in {"label", "percentage"} |->
        IF key = "label" THEN label ELSE percentage]

tenant_thresholds_schema(table) ==
    \A i \in 1..Len(table) :
        /\ DOMAIN table[i] = {"label", "percentage"}
        /\ table[i]["label"] \in SchemaLabels
        /\ table[i]["percentage"] \in 0..100

TenantRules == {TenantRule(l, p) : l \in TenantRuleLabels, p \in TenantPercentages}

TenantTables == UNION {[1..n -> TenantRules] : n \in 0..MaxTenantRules}

\* validate_subscription_ids: the sorted list of a set of ids
SortedIds(ids) ==
    LET Listed(id) == id \in ids
    IN  SelectSeq(subscriptions, Listed)

\* The findings of a call: each subscription has no finding, one High finding
\* or 26 of them.
HighCounts == {0, 1, 26}

FindingsOf(counts) ==
    LET kept == {i \in DOMAIN counts : counts[i] > 0}
    IN  [row \in {measurement_data(subscriptions[i], "rg1", "High", 0) : i \in kept} |->
            counts[CHOOSE i \in kept : subscriptions[i] = row.Subscription_ID]]

TenantFindings == {FindingsOf(counts) : counts \in [DOMAIN subscriptions -> HighCounts]}

InitTenant ==
    /\ findings = EmptyBag
    /\ threshold = SUBSCRIPTION_THRESHOLDS
    /\ name = "tenant"
    /\ energy_label = None
    /\ thresholds \in TenantTables
    /\ tenant_thresholds_schema(thresholds)
    /\ \E allowed \in SUBSET {subscriptions[i] : i \in DOMAIN subscriptions},
          denied \in SUBSET {subscriptions[i] : i \in DOMAIN subscriptions} :
           /\ ~(allowed # {} /\ denied # {})
           /\ allowed_subscription_ids = SortedIds(allowed)
           /\ denied_subscription_ids = SortedIds(denied)
    /\ _subscriptions_to_be_labeled = None
    /\ _targeted_subscriptions_energy_label = None
    /\ label_counter = EmptyBag
    /\ subscription_sums = <<>>
    /\ coverage = <<>>
    /\ CallUnused

\* A read of the property Tenant.subscriptions_to_be_labeled.
SubscriptionsToBeLabeled ==
    /\ _subscriptions_to_be_labeled' =
           Some(subscriptions_to_be_labeled(_subscriptions_to_be_labeled,
                                            allowed_subscription_ids,
                                            denied_subscription_ids))
    /\ UNCHANGED <<leafVars, thresholds, allowed_subscription_ids,
                   denied_subscription_ids, _targeted_subscriptions_energy_label,
                   label_counter, subscription_sums, coverage, callVars>>

\* A call of Tenant.get_energy_label_of_targeted_subscriptions(findings).
GetEnergyLabelOfTargetedSubscriptions ==
    \E df \in TenantFindings :
        /\ findings' = df
        /\ IF _targeted_subscriptions_energy_label = None
           THEN LET labeled_subscriptions ==
                        subscriptions_to_be_labeled(_subscriptions_to_be_labeled,
                                                    allowed_subscription_ids,
                                                    denied_subscription_ids)
                    counter == LabelCounter(df, labeled_subscriptions, threshold)
                    number_of_subscriptions == Len(labeled_subscriptions)
                    walk == TenantWalk(thresholds, 1, counter, number_of_subscriptions, <<>>)
                    label == TargetedSubscriptionsEnergyLabel(walk, counter,
                                                              number_of_subscriptions)
                IN  /\ _subscriptions_to_be_labeled' = Some(labeled_subscriptions)
                    /\ label_counter' = counter
                    /\ subscription_sums' = walk.sums
                    /\ energy_label' = Some(label)
                    /\ _targeted_subscriptions_energy_label' =
                           IF label.exception = "" THEN Some(label) ELSE None
           ELSE /\ energy_label' = _targeted_subscriptions_energy_label
                /\ UNCHANGED <<_subscriptions_to_be_labeled,
                               _targeted_subscriptions_energy_label,
                               label_counter, subscription_sums>>
        /\ UNCHANGED <<threshold, name, thresholds, allowed_subscription_ids,
                       denied_subscription_ids, coverage, callVars>>

NextTenant == SubscriptionsToBeLabeled \/ GetEnergyLabelOfTargetedSubscriptions

SpecTenant == InitTenant /\ [][NextTenant]_vars


(***************************************************************************)
(* SpecSubscription: one Subscription of a tenant whose findings, of two   *)
(* subscriptions and two resource groups, grow one at a time.              *)
(***************************************************************************)
MaxSubscriptionFindings == 3

\* Subscription.resource_groups: the names the resource client lists.
resource_groups == <<"rg1", "RG2">>

\* configuration.py: the coverage table of the resource groups of a subscription
SUBSCRIPTION_RESOURCE_GROUP_THRESHOLDS ==
    <<TenantRule("A", 90),
      TenantRule("B", 70),
      TenantRule("C", 50),
      TenantRule("D", 30),
      TenantRule("E", 20)>>

SubscriptionRows ==
    {measurement_data(sub, rg, s, 0) : sub \in {"sub1", "sub2"},
                                       rg \in {"rg1", "rg2"},
                                       s \in {"High", "Low"}}

InitSubscription ==
    /\ findings = EmptyBag
    /\ threshold = SUBSCRIPTION_THRESHOLDS
    /\ name \in {"sub1", "sub2"}
    /\ energy_label = None
    /\ TenantUnused
    /\ CallUnused

AddSubscriptionFinding ==
    /\ BagCardinality(findings) < MaxSubscriptionFindings
    /\ \E row \in SubscriptionRows : findings' = findings (+) SetToBag({row})
    /\ energy_label' = None
    /\ UNCHANGED <<threshold, name, tenantVars, coverage, callVars>>

SubscriptionEnergyLabel ==
    /\ energy_label' = Some(Subscription_get_energy_label(findings, name, threshold))
    /\ UNCHANGED <<findings, threshold, name, tenantVars, coverage, callVars>>

NextSubscription == AddSubscriptionFinding \/ SubscriptionEnergyLabel

SpecSubscription == InitSubscription /\ [][NextSubscription]_vars


(***************************************************************************)
(* SpecTenantInit: the construction of one Tenant (entities.py, 134-156)   *)
(* from an allow list and a deny list as a caller writes them, and the     *)
(* labelling of the tenant that was built.  A list argument is None, a     *)
(* string or a list of strings.  An id of SubscriptionIds stands for a     *)
(* string of SUBSCRIPTION_ID_LENGTH characters, "short" for a string of    *)
(* another length, "" for the empty string.                                *)
(***************************************************************************)
MaxListLength == 2        \* ids in an allow or deny list argument

NoneArgument == <<"None">>
StrArgument(string) == <<"str", string>>
ListArgument(list) == <<"list", list>>

\* bool(argument), as all([...]) takes it.
Truthy(argument) ==
    \/ argument[1] = "list" /\ argument[2] # <<>>
    \/ argument[1] = "str" /\ argument[2] # ""

\* validations.py: is_valid_subscription_id
is_valid_subscription_id(subscription_id) == IsIn(subscription_id, SubscriptionIds)

\* sorted(list({...})) of valid ids; the ids of SubscriptionIds are in string order.
SortedList(ids) ==
    LET Listed(id) == id \in ids
    IN  SelectSeq(SubscriptionIds, Listed)

\* Members of a list that are no strings: the int 5, kept as "int 5".
NonStringMembers == {"int 5"}

\* sorted() of members of which one is a string and another is not compares
\* the two and raises TypeError.
SortedRaises(ids) ==
    \E id \in ids, other \in ids : id \in NonStringMembers /\ other \notin NonStringMembers

\* validations.py: validate_subscription_ids.  A string that is not a valid id
\* is iterated character by character, and no character is a valid id.
validate_subscription_ids(argument) ==
    IF argument[1] = "None"
    THEN [exception |-> "", subscription_ids |-> <<>>]
    ELSE IF argument[1] = "str" /\ ~is_valid_subscription_id(argument[2]) /\ argument[2] # ""
         THEN [exception |-> "InvalidSubscriptionListProvided", subscription_ids |-> <<>>]
         ELSE LET given == IF argument[1] = "str"
                           THEN IF argument[2] = "" THEN <<>> ELSE <<argument[2]>>
                           ELSE argument[2]
                  ids == {given[i] : i \in DOMAIN given} \ {""}
              IN  IF SortedRaises(ids)
                  THEN [exception |-> "TypeError", subscription_ids |-> <<>>]
                  ELSE IF \A id \in ids : is_valid_subscription_id(id)
                       THEN [exception |-> "", subscription_ids |-> SortedList(ids)]
                       ELSE [exception |-> "InvalidSubscriptionListProvided",
                             subscription_ids |-> <<>>]

\* The same validation without the test of mutual exclusion.
validate_allowed_denied_subscription_ids_NoExclusion(allowed, denied) ==
    LET allowed_ids == validate_subscription_ids(allowed)
        denied_ids == validate_subscription_ids(denied)
    IN  IF allowed_ids.exception # ""
        THEN [exception |-> allowed_ids.exception, allowed |-> <<>>, denied |-> <<>>]
        ELSE [exception |-> denied_ids.exception,
              allowed |-> allowed_ids.subscription_ids,
              denied |-> denied_ids.subscription_ids]

\* validations.py: validate_allowed_denied_subscription_ids
validate_allowed_denied_subscription_ids(allowed, denied) ==
    IF Truthy(allowed) /\ Truthy(denied)
    THEN [exception |-> "MutuallyExclusiveArguments", allowed |-> <<>>, denied |-> <<>>]
    ELSE LET allowed_ids == validate_subscription_ids(allowed)
             denied_ids == validate_subscription_ids(denied)
         IN  IF allowed_ids.exception # ""
             THEN [exception |-> allowed_ids.exception, allowed |-> <<>>, denied |-> <<>>]
             ELSE [exception |-> denied_ids.exception,
                   allowed |-> allowed_ids.subscription_ids,
                   denied |-> denied_ids.subscription_ids]

\* The same check accepting every list.
_validate_tenant_subscription_ids_Unchecked(subscription_ids, tenant_subscription_ids) ==
    [exception |-> "", subscription_ids |-> subscription_ids]

\* Tenant._validate_tenant_subscription_ids
_validate_tenant_subscription_ids(subscription_ids, tenant_subscription_ids) ==
    LET subscriptions_not_in_tenant ==
            {subscription_ids[i] : i \in DOMAIN subscription_ids}
                \ {tenant_subscription_ids[i] : i \in DOMAIN tenant_subscription_ids}
    IN  IF subscriptions_not_in_tenant # {}
        THEN [exception |-> "SubscriptionNotPartOfTenant", subscription_ids |-> <<>>]
        ELSE [exception |-> "", subscription_ids |-> subscription_ids]

\* Tenant.__init__: the exception it raises, or the two lists it stores.
Tenant__init__(allowed, denied) ==
    LET validated == validate_allowed_denied_subscription_ids(allowed, denied)
        allowed_ids == _validate_tenant_subscription_ids(validated.allowed, subscriptions)
        denied_ids == _validate_tenant_subscription_ids(validated.denied, subscriptions)
    IN  IF validated.exception # ""
        THEN validated
        ELSE IF allowed_ids.exception # ""
             THEN [exception |-> allowed_ids.exception, allowed |-> <<>>, denied |-> <<>>]
             ELSE IF denied_ids.exception # ""
                  THEN [exception |-> denied_ids.exception, allowed |-> <<>>, denied |-> <<>>]
                  ELSE [exception |-> "",
                        allowed |-> allowed_ids.subscription_ids,
                        denied |-> denied_ids.subscription_ids]

\* The strings a caller lists: the ids of the tenant, an id of no subscription
\* of the tenant, a string that is no id, and the empty string.
ArgumentStrings ==
    {subscriptions[i] : i \in DOMAIN subscriptions} \cup {"sub4", "short", ""}

ListArguments ==
    {NoneArgument}
        \cup {StrArgument(string) : string \in ArgumentStrings}
        \cup {ListArgument(list) :
                 list \in UNION {[1..n -> ArgumentStrings] : n \in 0..MaxListLength}}

\* The tenant table of the tenant that is built.
ConstructedThresholds == <<TenantRule("A", 100), TenantRule("B", 50)>>

\* Before the construction there is no Tenant: name is "", it is "tenant" once
\* Tenant.__init__ has returned.
InitTenantInit ==
    /\ findings = EmptyBag
    /\ threshold = SUBSCRIPTION_THRESHOLDS
    /\ name = ""
    /\ energy_label = None
    /\ thresholds = ConstructedThresholds
    /\ allowed_subscription_ids = <<>>
    /\ denied_subscription_ids = <<>>
    /\ _subscriptions_to_be_labeled = None
    /\ _targeted_subscriptions_energy_label = None
    /\ label_counter = EmptyBag
    /\ subscription_sums = <<>>
    /\ coverage = <<>>
    /\ arguments \in [allowed_subscription_ids : ListArguments,
                      denied_subscription_ids : ListArguments]
    /\ raised = ""

\* Tenant(credential, tenant_id, thresholds, allowed_subscription_ids=...,
\*        denied_subscription_ids=...)
TenantInit ==
    /\ name = ""
    /\ raised = ""
    /\ LET built == Tenant__init__(arguments.allowed_subscription_ids,
                                   arguments.denied_subscription_ids)
       IN  /\ raised' = built.exception
           /\ name' = IF built.exception = "" THEN "tenant" ELSE name
           /\ allowed_subscription_ids' = built.allowed
           /\ denied_subscription_ids' = built.denied
    /\ _subscriptions_to_be_labeled' = None
    /\ _targeted_subscriptions_energy_label' = None
    /\ UNCHANGED <<findings, threshold, energy_label, thresholds, label_counter,
                   subscription_sums, coverage, arguments>>

\* The methods of the Tenant that was built.
LabelBuiltTenant ==
    /\ name = "tenant"
    /\ GetEnergyLabelOfTargetedSubscriptions

NextTenantInit == TenantInit \/ LabelBuiltTenant

SpecTenantInit == InitTenantInit /\ [][NextTenantInit]_vars


(***************************************************************************)
(* SpecFindings: one call of DefenderForCloud.get_findings (entities.py,   *)
(* 106-127).  The answers of the resource graph are an argument of the     *)
(* call: for each framework the list of finding details its query yields.  *)
(* A finding's details are a function from the keys it has to their        *)
(* values; a Finding wraps them.  Python's hash of a string is taken to    *)
(* tell the recommendation ids of the model apart.  The list returned has  *)
(* the order of a Python set, which nothing reads: it is kept as a set.    *)
(***************************************************************************)
MaxQueryFindings == 2     \* finding details in the answer to one query

\* entities.py: DefenderForCloud.frameworks
DefenderForCloud_frameworks == {"Azure Security Benchmark", "Azure CIS 1.1.0"}

\* configuration.py: DEFAULT_DEFENDER_FOR_CLOUD_FRAMEWORKS
DEFAULT_DEFENDER_FOR_CLOUD_FRAMEWORKS ==
    {"Azure Security Benchmark", "SOC TSP", "Azure CIS 1.1.0"}

\* DefenderForCloud.validate_frameworks, of a list of frameworks
validate_frameworks(frameworks) ==
    IF {frameworks[i] : i \in DOMAIN frameworks} \subseteq DefenderForCloud_frameworks
    THEN [exception |-> "", frameworks |-> frameworks]
    ELSE [exception |-> "InvalidFrameworks", frameworks |-> <<>>]

\* Finding(data)
Finding(data) == [_data |-> data]

\* Finding.recommendation_id: self._data.get('recommendationId', '')
Finding_recommendation_id(finding) ==
    IF "recommendationId" \in DOMAIN finding._data
    THEN finding._data["recommendationId"]
    ELSE ""

\* Finding.__hash__
Finding__hash__(finding) == Finding_recommendation_id(finding)

\* Equality of the details, the equality of an object that overrides nothing
\* but compares its data.
Finding__eq___Details(finding, other) == finding._data = other._data

\* Finding.__eq__
Finding__eq__(finding, other) == Finding__hash__(finding) = Finding__hash__(other)

\* set.add: an element equal to one of the set is not added.
SetAdd(set, finding) ==
    IF \E other \in set : Finding__eq__(other, finding)
    THEN set
    ELSE set \cup {finding}

\* for finding_details in finding_data: finding_details_set.add(Finding(finding_details))
RECURSIVE AddFindings(_, _)
AddFindings(set, finding_data) ==
    IF finding_data = <<>>
    THEN set
    ELSE AddFindings(SetAdd(set, Finding(Head(finding_data))), Tail(finding_data))

\* for framework in frameworks: ... finding_data = arg_client.resources(arg_query).data
RECURSIVE QueryFrameworks(_, _, _)
QueryFrameworks(set, frameworks, data) ==
    IF frameworks = <<>>
    THEN set
    ELSE QueryFrameworks(AddFindings(set, data[Head(frameworks)]), Tail(frameworks), data)

\* DefenderForCloud.get_findings
get_findings(frameworks, data) ==
    LET validated == validate_frameworks(frameworks)
    IN  IF validated.exception # ""
        THEN [exception |-> validated.exception, findings |-> {}]
        ELSE [exception |-> "",
              findings |-> QueryFrameworks({}, validated.frameworks, data)]

\* The details of a finding: with or without a recommendation id.
FindingDetails ==
    {[key \in {"recommendationId", "severity"} |->
         IF key = "recommendationId" THEN id ELSE severity] :
         id \in {"r1", "r2"}, severity \in {"High", "Low"}}
        \cup {[key \in {"severity"} |-> "High"]}

QueryAnswers == UNION {[1..n -> FindingDetails] : n \in 0..MaxQueryFindings}

\* The frameworks of a call: up to two of the default ones, in the order in
\* which they are iterated.
FrameworkLists ==
    {<<>>}
        \cup {<<framework>> : framework \in DEFAULT_DEFENDER_FOR_CLOUD_FRAMEWORKS}
        \cup {pair \in DEFAULT_DEFENDER_FOR_CLOUD_FRAMEWORKS
                            \X DEFAULT_DEFENDER_FOR_CLOUD_FRAMEWORKS : pair[1] # pair[2]}

InitFindings ==
    /\ findings = {}
    /\ threshold = <<>>
    /\ name = ""
    /\ energy_label = None
    /\ TenantUnused
    /\ arguments \in [frameworks : FrameworkLists,
                      data : [DefenderForCloud_frameworks -> QueryAnswers]]
    /\ raised = "not called"

\* defender_for_cloud.get_findings(frameworks)
GetFindings ==
    /\ raised = "not called"
    /\ LET returned == get_findings(arguments.frameworks, arguments.data)
       IN  /\ findings' = returned.findings
           /\ raised' = returned.exception
    /\ UNCHANGED <<threshold, name, energy_label, tenantVars, coverage, arguments>>

NextFindings == GetFindings

SpecFindings == InitFindings /\ [][NextFindings]_vars


(***************************************************************************)
(* SpecFindingObjects: a list of Finding objects, as get_findings returns  *)
(* it, is given to ResourceGroup.get_energy_label (entities.py, 423-449)   *)
(* and to Subscription.get_energy_label (369-395), which turn it into a    *)
(* DataFrame of measurement_data rows (602-610).                           *)
(***************************************************************************)
MaxFindingObjects == 2    \* Finding objects in the list

Finding_compliance_state(finding) ==
    IF "complianceState" \in DOMAIN finding._data THEN finding._data["complianceState"] ELSE ""

Finding_subscription_id(finding) ==
    IF "subscriptionId" \in DOMAIN finding._data THEN finding._data["subscriptionId"] ELSE ""

Finding_resource_group(finding) ==
    IF "resourceGroup" \in DOMAIN finding._data THEN finding._data["resourceGroup"] ELSE ""

Finding_severity(finding) ==
    IF "severity" \in DOMAIN finding._data THEN finding._data["severity"] ELSE ""

Finding_state(finding) ==
    IF "state" \in DOMAIN finding._data THEN finding._data["state"] ELSE ""

\* Finding.status_change_date.  The string of a date that strptime parses is
\* kept as <<"date", days>>, days being the whole days between it and now; any
\* other string as <<"text">>.  A missing key is the string '', which strptime
\* does not parse: _parse_date_time returns None.
Finding_status_change_date(finding) ==
    LET status_change_date == IF "statusChangeDate" \in DOMAIN finding._data
                              THEN finding._data["statusChangeDate"]
                              ELSE <<"text">>
    IN  IF status_change_date[1] = "date" THEN Some(status_change_date[2]) ELSE None

\* Finding.days_open: (current_time - status_change_date).days, and -1 when the
\* subtraction raises because the date is None.
Finding_days_open(finding) ==
    IF Finding_status_change_date(finding) # None
    THEN Value(Finding_status_change_date(finding))
    ELSE -1

\* Finding.is_skipped
Finding_is_skipped(finding) == Lower(Finding_compliance_state(finding)) = "skipped"

\* Finding.measurement_data
Finding_measurement_data(finding) ==
    measurement_data(Finding_subscription_id(finding), Finding_resource_group(finding),
                     Finding_severity(finding), Finding_days_open(finding))

\* pd.DataFrame([finding.measurement_data for finding in findings])
RECURSIVE DataFrame(_)
DataFrame(list) ==
    IF list = <<>>
    THEN EmptyBag
    ELSE DataFrame(Tail(list)) (+) SetToBag({Finding_measurement_data(Head(list))})

\* The details of the findings of subscription sub1.
ObjectDetails ==
    {[key \in {"subscriptionId", "resourceGroup", "severity", "complianceState", "state"} |->
         CASE key = "subscriptionId" -> "sub1"
           [] key = "resourceGroup" -> rg
           [] key = "severity" -> s
           [] key = "complianceState" -> compliance
           [] OTHER -> st] :
         rg \in {"rg1", "RG1"}, s \in {"High", "Low"},
         compliance \in {"Failed", "Skipped"},
         st \in {"unhealthy", "Healthy", "notapplicable"}}

\* The resource groups that are labelled.
ObjectResourceGroups == {"rg1", "RG1"}

InitFindingObjects ==
    /\ findings = EmptyBag
    /\ threshold = <<>>
    /\ name = ""
    /\ energy_label = None
    /\ TenantUnused
    /\ arguments = <<>>
    /\ raised = ""

\* One more Finding in the list the labelled objects are given.
AddFindingObject ==
    /\ Len(arguments) < MaxFindingObjects
    /\ \E details \in ObjectDetails : arguments' = Append(arguments, Finding(details))
    /\ findings' = EmptyBag
    /\ threshold' = <<>>
    /\ name' = ""
    /\ energy_label' = None
    /\ UNCHANGED <<tenantVars, coverage, raised>>

\* resource_group.get_energy_label(findings) of a ResourceGroup: findings is
\* the DataFrame its EnergyLabeler is given.
LabelResourceGroup ==
    /\ \E resource_group_name \in ObjectResourceGroups :
           /\ name' = resource_group_name
           /\ findings' = ResourceGroup_get_open_findings(DataFrame(arguments),
                                                          resource_group_name)
           /\ energy_label' = Some(ResourceGroup_get_energy_label(DataFrame(arguments),
                                                                  resource_group_name,
                                                                  RESOURCE_GROUP_THRESHOLDS))
    /\ threshold' = RESOURCE_GROUP_THRESHOLDS
    /\ UNCHANGED <<tenantVars, coverage, callVars>>

\* subscription.get_energy_label(findings) of the Subscription sub1
LabelSubscription ==
    /\ name' = "sub1"
    /\ findings' = Subscription_get_open_findings(DataFrame(arguments), "sub1")
    /\ energy_label' = Some(Subscription_get_energy_label(DataFrame(arguments), "sub1",
                                                          SUBSCRIPTION_THRESHOLDS))
    /\ threshold' = SUBSCRIPTION_THRESHOLDS
    /\ UNCHANGED <<tenantVars, coverage, callVars>>

NextFindingObjects == AddFindingObject \/ LabelResourceGroup \/ LabelSubscription

SpecFindingObjects == InitFindingObjects /\ [][NextFindingObjects]_vars


(***************************************************************************)
(* SpecSuppliedTables: a Tenant built with a subscription table and a      *)
(* resource group table of the caller (entities.py, 134-147), and the      *)
(* labels of a subscription and of a resource group of that tenant.  The   *)
(* Tenant keeps the two tables (146-147); Tenant.subscriptions (179-190)   *)
(* builds each Subscription from the credential and its details, and       *)
(* Subscription.resource_groups (352-359) each ResourceGroup from its      *)
(* details, so that each takes the table its constructor sets (319, 405).  *)
(***************************************************************************)
MaxSuppliedFindings == 2  \* findings given to the labelled objects

\* The tables a caller supplies: one rule, accepted by the schema.
SuppliedTables == {<<rule>> : rule \in Rules}

SuppliedRows == {measurement_data("sub1", "rg1", s, 0) : s \in {"High", "Low"}}

\* Subscription.__init__: self._threshold
Subscription_threshold == SUBSCRIPTION_THRESHOLDS

\* ResourceGroup.__init__: self._threshold
ResourceGroup_threshold == RESOURCE_GROUP_THRESHOLDS

InitSuppliedTables ==
    /\ findings = EmptyBag
    /\ threshold = <<>>
    /\ name = ""
    /\ energy_label = None
    /\ TenantUnused
    /\ arguments \in [subscription_thresholds : SuppliedTables,
                      resource_group_thresholds : SuppliedTables]
    /\ raised = ""

AddSuppliedFinding ==
    /\ BagCardinality(findings) < MaxSuppliedFindings
    /\ \E row \in SuppliedRows : findings' = findings (+) SetToBag({row})
    /\ threshold' = <<>>
    /\ name' = ""
    /\ energy_label' = None
    /\ UNCHANGED <<tenantVars, coverage, callVars>>

\* subscription.get_energy_label(findings), subscription one of tenant.subscriptions
LabelTenantSubscription ==
    /\ name' = "sub1"
    /\ threshold' = Subscription_threshold
    /\ energy_label' = Some(Subscription_get_energy_label(findings, "sub1",
                                                          Subscription_threshold))
    /\ UNCHANGED <<findings, tenantVars, coverage, callVars>>

\* resource_group.get_energy_label(findings), resource_group one of
\* subscription.resource_groups
LabelTenantResourceGroup ==
    /\ name' = "rg1"
    /\ threshold' = ResourceGroup_threshold
    /\ energy_label' = Some(ResourceGroup_get_energy_label(findings, "rg1",
                                                           ResourceGroup_threshold))
    /\ UNCHANGED <<findings, tenantVars, coverage, callVars>>

NextSuppliedTables ==
    AddSuppliedFinding \/ LabelTenantSubscription \/ LabelTenantResourceGroup

SpecSuppliedTables == InitSuppliedTables /\ [][NextSuppliedTables]_vars


(***************************************************************************)
(* SpecTenantLabel: one Tenant as in SpecTenant, whose label is read with  *)
(* Tenant.get_energy_label (entities.py, 292-307): the label of the        *)
(* targeted subscriptions with the coverage of the tenant,                 *)
(*     len(subscriptions_to_be_labeled) / len(subscriptions) * 100         *)
(* in float arithmetic, written with two decimals.                         *)
(***************************************************************************)
\* float * 100, exactly: the limbs of 100 * m, the first one unbounded.
TimesHundred(x) ==
    LET t5 == x.m[5] * 100
        t4 == x.m[4] * 100 + (t5 \div 8192)
        t3 == x.m[3] * 100 + (t4 \div 8192)
        t2 == x.m[2] * 100 + (t3 \div 8192)
        t1 == x.m[1] * 100 + (t2 \div 8192)
    IN  <<t1, t2 % 8192, t3 % 8192, t4 % 8192, t5 % 8192>>

\* format(x, '.2f') of a float x < 2^53 whose exponent e is not positive: the
\* hundredths nearest to x (a tie goes to the even one), which are the digits
\* Python writes.
Hundredths(x) ==
    LET t == TimesHundred(x)
        s == -x.e
        whole == t[1] \div 2^s
        rest == t[1] % 2^s
        below == t[2] # 0 \/ t[3] # 0 \/ t[4] # 0 \/ t[5] # 0
        more == IF s > 0
                THEN rest > 2^(s - 1) \/ (rest = 2^(s - 1) /\ below)
                ELSE t[2] > 4096 \/ (t[2] = 4096 /\ (t[3] # 0 \/ t[4] # 0 \/ t[5] # 0))
        tie == IF s > 0
               THEN rest = 2^(s - 1) /\ ~below
               ELSE t[2] = 4096 /\ t[3] = 0 /\ t[4] = 0 /\ t[5] = 0
    IN  IF more \/ (tie /\ whole % 2 = 1) THEN whole + 1 ELSE whole

\* f'{coverage_percentage:.2f}%'
FormatPercentage(x) ==
    LET hundredths == Hundredths(x)
        cents == hundredths % 100
    IN  ToString(hundredths \div 100) \o "."
            \o (IF cents < 10 THEN "0" ELSE "") \o ToString(cents) \o "%"

\* labels.py: TenantEnergyLabel
TenantEnergyLabel(label, best_label, worst_label, coverage_string) ==
    [exception |-> "",
     label |-> label,
     best_label |-> best_label,
     worst_label |-> worst_label,
     coverage |-> coverage_string]

\* A call of Tenant.get_energy_label that ends in an exception.
RaiseTenant(exception) ==
    [exception |-> exception,
     label |-> "",
     best_label |-> "",
     worst_label |-> "",
     coverage |-> ""]

\* The same label with the share of the subscriptions that are labeled among
\* themselves.
TenantLabelOf_ScopeOnly(aggregate_label, labeled_subscriptions) ==
    IF aggregate_label.exception # ""
    THEN RaiseTenant(aggregate_label.exception)
    ELSE TenantEnergyLabel(aggregate_label.label, aggregate_label.best_label,
                           aggregate_label.worst_label,
                           FormatPercentage(FloatMulInt(
                               FloatDiv(Len(labeled_subscriptions),
                                        Len(labeled_subscriptions)), 100)))

\* Tenant.get_energy_label after the aggregate label is known: an exception
\* of get_energy_label_of_targeted_subscriptions leaves the call.
TenantLabelOf(aggregate_label, labeled_subscriptions) ==
    IF aggregate_label.exception # ""
    THEN RaiseTenant(aggregate_label.exception)
    ELSE TenantEnergyLabel(aggregate_label.label, aggregate_label.best_label,
                           aggregate_label.worst_label,
                           FormatPercentage(FloatMulInt(
                               FloatDiv(Len(labeled_subscriptions),
                                        Len(subscriptions)), 100)))

\* The findings of a call of get_energy_label: each subscription has no
\* finding or 26 High findings.
TenantLabelFindings ==
    {FindingsOf(counts) : counts \in [DOMAIN subscriptions -> {0, 26}]}

\* The same call computing the label of the targeted subscriptions anew
\* whatever is stored.
GetEnergyLabel_Recomputed ==
    \E df \in TenantLabelFindings :
        /\ findings' = df
        /\ LET labeled_subscriptions ==
                    subscriptions_to_be_labeled(_subscriptions_to_be_labeled,
                                                allowed_subscription_ids,
                                                denied_subscription_ids)
               counter == LabelCounter(df, labeled_subscriptions, threshold)
               number_of_subscriptions == Len(labeled_subscriptions)
               walk == TenantWalk(thresholds, 1, counter, number_of_subscriptions, <<>>)
               label == TargetedSubscriptionsEnergyLabel(walk, counter,
                                                         number_of_subscriptions)
           IN  /\ _subscriptions_to_be_labeled' = Some(labeled_subscriptions)
               /\ label_counter' = counter
               /\ subscription_sums' = walk.sums
               /\ _targeted_subscriptions_energy_label' =
                      IF label.exception = "" THEN Some(label) ELSE None
               /\ energy_label' = Some(TenantLabelOf(label, labeled_subscriptions))
        /\ UNCHANGED <<threshold, name, thresholds, allowed_subscription_ids,
                       denied_subscription_ids, coverage, callVars>>

\* A call of Tenant.get_energy_label(findings).
GetEnergyLabel ==
    \E df \in TenantLabelFindings :
        /\ findings' = df
        /\ LET labeled_subscriptions ==
                    subscriptions_to_be_labeled(_subscriptions_to_be_labeled,
                                                allowed_subscription_ids,
                                                denied_subscription_ids)
               counter == LabelCounter(df, labeled_subscriptions, threshold)
               number_of_subscriptions == Len(labeled_subscriptions)
               walk == TenantWalk(thresholds, 1, counter, number_of_subscriptions, <<>>)
               label == TargetedSubscriptionsEnergyLabel(walk, counter,
                                                         number_of_subscriptions)
           IN  /\ _subscriptions_to_be_labeled' = Some(labeled_subscriptions)
               /\ IF _targeted_subscriptions_energy_label = None
                  THEN /\ label_counter' = counter
                       /\ subscription_sums' = walk.sums
                       /\ _targeted_subscriptions_energy_label' =
                              IF label.exception = "" THEN Some(label) ELSE None
                       /\ energy_label' = Some(TenantLabelOf(label, labeled_subscriptions))
                  ELSE /\ energy_label' =
                              Some(TenantLabelOf(Value(_targeted_subscriptions_energy_label),
                                                 labeled_subscriptions))
                       /\ UNCHANGED <<_targeted_subscriptions_energy_label,
                                      label_counter, subscription_sums>>
        /\ UNCHANGED <<threshold, name, thresholds, allowed_subscription_ids,
                       denied_subscription_ids, coverage, callVars>>

NextTenantLabel == SubscriptionsToBeLabeled \/ GetEnergyLabel

SpecTenantLabel == InitTenant /\ [][NextTenantLabel]_vars


(***************************************************************************)
(* SpecSchemas: the construction of one AzureEnergyLabeler                 *)
(* (azureenergylabelerlib.py, 105-136) from three threshold tables as a    *)
(* caller writes them.  A supplied rule is a function from the keys it has *)
(* to their values; a value other than the label is a Python number, an    *)
(* int or a float, kept with its type.  The schemas (schemas.py, 51-64)    *)
(* validate each rule of a list against one dict schema: the keys of the   *)
(* rule must be the keys of the schema, each value must pass the test of   *)
(* its key.  Every failure is a SchemaError.  After the three validations  *)
(* the constructor fetches the credentials and calls Tenant(...) with the  *)
(* keyword denied_resource_group_names, which Tenant.__init__              *)
(* (entities.py, 134-141) does not have: TypeError.                        *)
(***************************************************************************)
MaxSchemaRules == 2       \* rules of a supplied threshold table

PyInt(number) == [type |-> "int", value |-> number]
PyFloat(number) == [type |-> "float", value |-> number]

\* And(int, lambda n: n >= 0)
SchemaCeiling(data) == data.type = "int" /\ data.value >= 0

\* And(int, lambda n: n > 0)
SchemaDaysOpen(data) == data.type = "int" /\ data.value > 0

\* And(int, lambda n: 0 <= n <= 100)
SchemaPercentage(data) == data.type = "int" /\ 0 <= data.value /\ data.value <= 100

SchemaRaise == [exception |-> "SchemaError", data |-> <<>>]

\* The rule as the classifiers read it: the numbers without their types.
ValidatedRule(data) ==
    [key \in DOMAIN data |-> IF key = "label" THEN data[key] ELSE data[key].value]

ValidatedTable(data) == [i \in DOMAIN data |-> ValidatedRule(data[i])]

\* resource_group_thresholds_schema.validate(data)
resource_group_thresholds_schema_validate(data) ==
    IF \A i \in DOMAIN data :
           /\ DOMAIN data[i] = RuleKeys \cup {"label"}
           /\ data[i]["label"] \in SchemaLabels
           /\ SchemaCeiling(data[i]["high"])
           /\ SchemaCeiling(data[i]["medium"])
           /\ SchemaCeiling(data[i]["low"])
           /\ SchemaDaysOpen(data[i]["days_open_less_than"])
    THEN [exception |-> "", data |-> ValidatedTable(data)]
    ELSE SchemaRaise

\* subscription_thresholds_schema.validate(data)
subscription_thresholds_schema_validate(data) ==
    IF \A i \in DOMAIN data :
           /\ DOMAIN data[i] = RuleKeys \cup {"label"}
           /\ data[i]["label"] \in SchemaLabels
           /\ SchemaCeiling(data[i]["high"])
           /\ SchemaCeiling(data[i]["medium"])
           /\ SchemaCeiling(data[i]["low"])
           /\ SchemaDaysOpen(data[i]["days_open_less_than"])
    THEN [exception |-> "", data |-> ValidatedTable(data)]
    ELSE SchemaRaise

\* tenant_thresholds_schema.validate(data)
tenant_thresholds_schema_validate(data) ==
    IF \A i \in DOMAIN data :
           /\ DOMAIN data[i] = {"label", "percentage"}
           /\ data[i]["label"] \in SchemaLabels
           /\ SchemaPercentage(data[i]["percentage"])
    THEN [exception |-> "", data |-> ValidatedTable(data)]
    ELSE SchemaRaise

\* AzureEnergyLabeler._fetch_credentials
_fetch_credentials(credentials) ==
    IF credentials = "valid" THEN "" ELSE "InvalidCredentials"

\* AzureEnergyLabeler.__init__: the exception that ends it.  No call returns:
\* one that passes the validations and has credentials ends in the TypeError
\* of Tenant(..., denied_resource_group_names=...).
AzureEnergyLabeler__init__(resource_group_thresholds, tenant_thresholds, subscription_thresholds, credentials) ==
    LET resource_group == resource_group_thresholds_schema_validate(resource_group_thresholds)
        tenant == tenant_thresholds_schema_validate(tenant_thresholds)
        subscription == subscription_thresholds_schema_validate(subscription_thresholds)
    IN  IF resource_group.exception # "" THEN resource_group.exception
        ELSE IF tenant.exception # "" THEN tenant.exception
        ELSE IF subscription.exception # "" THEN subscription.exception
        ELSE IF _fetch_credentials(credentials) # "" THEN _fetch_credentials(credentials)
        ELSE "TypeError"

SuppliedRule(label, high, medium, low, days) ==
    [key \in RuleKeys \cup {"label"} |->
        CASE key = "label" -> label
          [] key = "high" -> high
          [] key = "medium" -> medium
          [] key = "low" -> low
          [] OTHER -> days]

\* A rule as configuration.py writes the default ones: without a day bound.
SuppliedDefaultRule(label, high, medium, low) ==
    [key \in {"label", "high", "medium", "low"} |->
        CASE key = "label" -> label
          [] key = "high" -> high
          [] key = "medium" -> medium
          [] OTHER -> low]

SuppliedTenantRule(label, percentage) ==
    [key \in {"label", "percentage"} |->
        IF key = "label" THEN label ELSE percentage]

\* Rules of a resource group table: two the schema accepts, and one for each
\* way of failing it.
SuppliedResourceGroupRules ==
    {SuppliedRule("A", PyInt(0), PyInt(0), PyInt(0), PyInt(1)),
     SuppliedRule("B", PyInt(1), PyInt(0), PyInt(0), PyInt(1)),
     SuppliedRule("F", PyInt(0), PyInt(0), PyInt(0), PyInt(1)),
     SuppliedRule("A", PyInt(-1), PyInt(0), PyInt(0), PyInt(1)),
     SuppliedRule("A", PyInt(0), PyFloat(1), PyInt(0), PyInt(1)),
     SuppliedRule("A", PyInt(0), PyInt(0), PyInt(0), PyInt(0)),
     SuppliedDefaultRule("A", PyInt(0), PyInt(10), PyInt(20))}

SuppliedSubscriptionRules ==
    {SuppliedRule("A", PyInt(0), PyInt(0), PyInt(0), PyInt(1)),
     SuppliedRule("A", PyInt(0), PyInt(0), PyInt(-1), PyInt(1))}

SuppliedTenantRules ==
    {SuppliedTenantRule("A", PyInt(100)),
     SuppliedTenantRule("B", PyInt(0)),
     SuppliedTenantRule("A", PyInt(101)),
     SuppliedTenantRule("A", PyFloat(50))}

TablesOf(rules) == UNION {[1..n -> rules] : n \in 0..MaxSchemaRules}

InitSchemas ==
    /\ findings = EmptyBag
    /\ threshold = <<>>
    /\ name = ""
    /\ energy_label = None
    /\ TenantUnused
    /\ arguments \in [resource_group_thresholds : TablesOf(SuppliedResourceGroupRules),
                      tenant_thresholds : TablesOf(SuppliedTenantRules),
                      subscription_thresholds : TablesOf(SuppliedSubscriptionRules),
                      credentials : {"valid", "invalid"}]
    /\ raised = "not called"

\* AzureEnergyLabeler(tenant_id, tenant_thresholds=..., resource_group_thresholds=...,
\*                    subscription_thresholds=..., credentials=...)
AzureEnergyLabelerInit ==
    /\ raised = "not called"
    /\ raised' = AzureEnergyLabeler__init__(arguments.resource_group_thresholds,
                                            arguments.tenant_thresholds,
                                            arguments.subscription_thresholds,
                                            arguments.credentials)
    /\ UNCHANGED <<leafVars, tenantVars, coverage, arguments>>

NextSchemas == AzureEnergyLabelerInit

SpecSchemas == InitSchemas /\ [][NextSchemas]_vars


(***************************************************************************)
(* SpecLabelerType: the construction of one EnergyLabeler (entities.py,    *)
(* 765-777) for an object type a caller names, and the reading of its      *)
(* energy_label.  ENERGY_LABEL_CALCULATION_CONFIG is imported from         *)
(* configuration.py, which does not define it: it has here one entry for   *)
(* each object type the library passes ('subscription' at line 393,        *)
(* 'resource_group' at line 447), with the two keys _energy_label_class    *)
(* reads.                                                                  *)
(***************************************************************************)
ENERGY_LABEL_CALCULATION_CONFIG ==
    <<[object_type |-> "resource_group", energy_label_object |-> "ResourceGroupEnergyLabel"],
      [object_type |-> "subscription", energy_label_object |-> "SubscriptionEnergyLabel"]>>

\* EnergyLabeler._energy_label_class: next(..., None) is None when no entry has
\* the object type, and None.get raises AttributeError.
_energy_label_class(object_type) ==
    LET HasType(entry) == entry.object_type = object_type
        config == SelectSeq(ENERGY_LABEL_CALCULATION_CONFIG, HasType)
    IN  IF config = <<>>
        THEN [exception |-> "AttributeError", energy_label_class |-> None]
        ELSE [exception |-> "", energy_label_class |-> Some(config[1].energy_label_object)]

\* EnergyLabeler.__init__: the exception it raises, or the class it stores.
EnergyLabeler__init__(object_type) == _energy_label_class(object_type)

\* The object types a caller names: the two of the library and two others.
ObjectTypes == {"resource_group", "subscription", "tenant", "management_group"}

\* The finding sets of a labeler: up to two findings.
LabelerFindings ==
    {EmptyBag}
        \cup {SetToBag({row}) (+) SetToBag({other}) : row \in SpecRows, other \in SpecRows}
        \cup {SetToBag({row}) : row \in SpecRows}

\* The tables of a labeler: no rule or one.
LabelerTables == {<<>>} \cup {<<rule>> : rule \in Rules}

\* Before the construction there is no labeler: name is "".
InitLabelerType ==
    /\ findings = EmptyBag
    /\ threshold = <<>>
    /\ name = ""
    /\ energy_label = None
    /\ TenantUnused
    /\ arguments \in [object_type : ObjectTypes,
                      name : {"rg1"},
                      findings : LabelerFindings,
                      threshold : LabelerTables]
    /\ raised = "not called"

\* EnergyLabeler(object_type=..., name=..., findings=..., threshold=...)
EnergyLabelerInit ==
    /\ raised = "not called"
    /\ LET built == EnergyLabeler__init__(arguments.object_type)
       IN  /\ raised' = built.exception
           /\ IF built.exception = ""
              THEN /\ findings' = arguments.findings
                   /\ threshold' = arguments.threshold
                   /\ name' = arguments.name
              ELSE UNCHANGED <<findings, threshold, name>>
    /\ UNCHANGED <<energy_label, tenantVars, coverage, arguments>>

\* labeler.energy_label, of the labeler that was built
ReadEnergyLabel ==
    /\ name # ""
    /\ energy_label' = Some(EnergyLabeler_energy_label(findings, threshold))
    /\ UNCHANGED <<findings, threshold, name, tenantVars, coverage, callVars>>

NextLabelerType == EnergyLabelerInit \/ ReadEnergyLabel

SpecLabelerType == InitLabelerType /\ [][NextLabelerType]_vars


(***************************************************************************)
(* SpecDates: Finding objects whose statusChangeDate is a date, a string   *)
(* that is no date, or missing, given to Subscription.get_energy_label     *)
(* (entities.py, 369-395) of the subscription sub1.                        *)
(***************************************************************************)
MaxDatedFindings == 2     \* Finding objects in the list
MaxAge == 2               \* whole days between a status change date and now

StatusChangeDates == {<<"date", days>> : days \in 0..MaxAge} \cup {<<"text">>}

\* The details of the findings of sub1: with a statusChangeDate or without.
DatedDetails ==
    {[key \in {"subscriptionId", "resourceGroup", "severity", "statusChangeDate"} |->
         CASE key = "subscriptionId" -> "sub1"
           [] key = "resourceGroup" -> "rg1"
           [] key = "severity" -> s
           [] OTHER -> date] :
         s \in {"High", "Low", "Informational"}, date \in StatusChangeDates}
      \cup
    {[key \in {"subscriptionId", "resourceGroup", "severity"} |->
         CASE key = "subscriptionId" -> "sub1"
           [] key = "resourceGroup" -> "rg1"
           [] OTHER -> s] :
         s \in {"High", "Low", "Informational"}}

InitDates ==
    /\ findings = EmptyBag
    /\ threshold = SUBSCRIPTION_THRESHOLDS
    /\ name = "sub1"
    /\ energy_label = None
    /\ TenantUnused
    /\ arguments = <<>>
    /\ raised = ""

\* One more Finding in the list the subscription is given.
AddDatedFinding ==
    /\ Len(arguments) < MaxDatedFindings
    /\ \E details \in DatedDetails : arguments' = Append(arguments, Finding(details))
    /\ findings' = EmptyBag
    /\ energy_label' = None
    /\ UNCHANGED <<threshold, name, tenantVars, coverage, raised>>

\* subscription.get_energy_label(findings): findings is the DataFrame its
\* EnergyLabeler is given.
LabelDatedFindings ==
    /\ findings' = Subscription_get_open_findings(DataFrame(arguments), name)
    /\ energy_label' = Some(Subscription_get_energy_label(DataFrame(arguments), name,
                                                          threshold))
    /\ UNCHANGED <<threshold, name, tenantVars, coverage, callVars>>

NextDates == AddDatedFinding \/ LabelDatedFindings

SpecDates == InitDates /\ [][NextDates]_vars


(***************************************************************************)
(* SpecAggregate: one Tenant whose table has rules of any percentage the   *)
(* schema accepts, 0 included, in any order, and whose subscriptions are   *)
(* labelled 'A' (no finding), 'B' (one High finding) or 'F' (26 of them).  *)
(***************************************************************************)
MaxAggregateRules == 2    \* rules of the tenant table in SpecAggregate

AggregatePercentages == {0, 50, 100}

AggregateRules == {TenantRule(l, p) : l \in TenantRuleLabels, p \in AggregatePercentages}

AggregateTables == UNION {[1..n -> AggregateRules] : n \in 0..MaxAggregateRules}

\* The findings of a call: each subscription has no finding, one High finding
\* or 26 of them.
AggregateFindings == {FindingsOf(counts) : counts \in [DOMAIN subscriptions -> HighCounts]}

\* The deny lists of the tenant: none, or its first subscription.
AggregateDenyLists == {<<>>, <<subscriptions[1]>>}

InitAggregate ==
    /\ findings = EmptyBag
    /\ threshold = SUBSCRIPTION_THRESHOLDS
    /\ name = "tenant"
    /\ energy_label = None
    /\ thresholds \in AggregateTables
    /\ tenant_thresholds_schema(thresholds)
    /\ allowed_subscription_ids = <<>>
    /\ denied_subscription_ids \in AggregateDenyLists
    /\ _subscriptions_to_be_labeled = None
    /\ _targeted_subscriptions_energy_label = None
    /\ label_counter = EmptyBag
    /\ subscription_sums = <<>>
    /\ coverage = <<>>
    /\ CallUnused

\* A call of Tenant.get_energy_label_of_targeted_subscriptions(findings).
LabelTargetedSubscriptions ==
    \E df \in AggregateFindings :
        /\ findings' = df
        /\ IF _targeted_subscriptions_energy_label = None
           THEN LET labeled_subscriptions ==
                        subscriptions_to_be_labeled(_subscriptions_to_be_labeled,
                                                    allowed_subscription_ids,
                                                    denied_subscription_ids)
                    counter == LabelCounter(df, labeled_subscriptions, threshold)
                    number_of_subscriptions == Len(labeled_subscriptions)
                    walk == TenantWalk(thresholds, 1, counter, number_of_subscriptions, <<>>)
                    label == TargetedSubscriptionsEnergyLabel(walk, counter,
                                                              number_of_subscriptions)
                IN  /\ _subscriptions_to_be_labeled' = Some(labeled_subscriptions)
                    /\ label_counter' = counter
                    /\ subscription_sums' = walk.sums
                    /\ energy_label' = Some(label)
                    /\ _targeted_subscriptions_energy_label' =
                           IF label.exception = "" THEN Some(label) ELSE None
           ELSE /\ energy_label' = _targeted_subscriptions_energy_label
                /\ UNCHANGED <<_subscriptions_to_be_labeled,
                               _targeted_subscriptions_energy_label,
                               label_counter, subscription_sums>>
        /\ UNCHANGED <<threshold, name, thresholds, allowed_subscription_ids,
                       denied_subscription_ids, coverage, callVars>>

NextAggregate == SubscriptionsToBeLabeled \/ LabelTargetedSubscriptions

SpecAggregate == InitAggregate /\ [][NextAggregate]_vars


(***************************************************************************)
(* SpecFrameworks: one call of DefenderForCloud.validate_frameworks        *)
(* (entities.py, 89-104) with the frameworks as a caller writes them:      *)
(* None, one string, or a collection (list, tuple or set) of strings,      *)
(* kept as a list in the order in which it is iterated.                    *)
(***************************************************************************)
MaxFrameworks == 3        \* frameworks in a collection argument

\* DefenderForCloud.validate_frameworks: a value that is no list, tuple or set
\* becomes the list of that value; None is no framework.
DefenderForCloud_validate_frameworks(argument) ==
    IF argument[1] = "None"
    THEN [exception |-> "InvalidFrameworks", frameworks |-> <<>>]
    ELSE IF argument[1] = "str"
         THEN validate_frameworks(<<argument[2]>>)
         ELSE validate_frameworks(argument[2])

\* The names a caller writes: those of the default value and another one.
FrameworkNames == DEFAULT_DEFENDER_FOR_CLOUD_FRAMEWORKS \cup {"ISO 27001"}

FrameworkArguments ==
    {NoneArgument}
        \cup {StrArgument(framework) : framework \in FrameworkNames}
        \cup {ListArgument(list) :
                 list \in UNION {[1..n -> FrameworkNames] : n \in 0..MaxFrameworks}}

InitFrameworks ==
    /\ findings = EmptyBag
    /\ threshold = <<>>
    /\ name = ""
    /\ energy_label = None
    /\ TenantUnused
    /\ arguments \in [frameworks : FrameworkArguments]
    /\ raised = "not called"

\* DefenderForCloud.validate_frameworks(frameworks)
ValidateFrameworks ==
    /\ raised = "not called"
    /\ raised' = DefenderForCloud_validate_frameworks(arguments.frameworks).exception
    /\ UNCHANGED <<leafVars, tenantVars, coverage, arguments>>

NextFrameworks == ValidateFrameworks

SpecFrameworks == InitFrameworks /\ [][NextFrameworks]_vars


(***************************************************************************)
(* SpecDenyList: one read of AzureEnergyLabeler.defender_for_cloud_findings *)
(* (azureenergylabelerlib.py, 155-166) of a labeler whose                  *)
(* denied_resource_group_names is None, the default, or a list of names.   *)
(* The findings get_findings returns are an argument of the read.          *)
(***************************************************************************)
MaxDeniedNames == 2       \* names in denied_resource_group_names
MaxFetchedFindings == 2   \* findings get_findings returns

\* [rg.lower() for rg in self.denied_resource_group_names]: iterating None
\* raises TypeError.
LowerCasedNames(denied_resource_group_names) ==
    IF denied_resource_group_names[1] = "None"
    THEN [exception |-> "TypeError", names |-> {}]
    ELSE [exception |-> "",
          names |-> {Lower(denied_resource_group_names[2][i]) :
                        i \in DOMAIN denied_resource_group_names[2]}]

\* AzureEnergyLabeler.defender_for_cloud_findings: the condition of the
\* comprehension, and with it the list of lower-cased names, is evaluated for
\* each finding fetched, not at all when none is.
defender_for_cloud_findings(fetched, denied_resource_group_names) ==
    IF fetched = {}
    THEN [exception |-> "", findings |-> {}]
    ELSE IF LowerCasedNames(denied_resource_group_names).exception # ""
         THEN [exception |-> LowerCasedNames(denied_resource_group_names).exception,
               findings |-> {}]
         ELSE [exception |-> "",
               findings |-> {finding \in fetched :
                                Finding_resource_group(finding)
                                    \notin LowerCasedNames(denied_resource_group_names).names}]

\* The details of a fetched finding.
FetchedDetails ==
    {[key \in {"recommendationId", "resourceGroup"} |->
         IF key = "recommendationId" THEN id ELSE rg] :
         id \in {"r1", "r2"}, rg \in {"rg1", "rg2", "RG1"}}

\* What get_findings returns: findings of different recommendation ids.
FetchedFindings ==
    {fetched \in SUBSET {Finding(details) : details \in FetchedDetails} :
        /\ Cardinality(fetched) <= MaxFetchedFindings
        /\ \A finding \in fetched, other \in fetched :
               Finding__eq__(finding, other) => finding = other}

DeniedNameArguments ==
    {NoneArgument}
        \cup {ListArgument(list) :
                 list \in UNION {[1..n -> {"rg1", "RG1", "RG2"}] : n \in 0..MaxDeniedNames}}

InitDenyList ==
    /\ findings = {}
    /\ threshold = <<>>
    /\ name = ""
    /\ energy_label = None
    /\ TenantUnused
    /\ arguments \in [denied_resource_group_names : DeniedNameArguments,
                      fetched : FetchedFindings]
    /\ raised = "not called"

\* labeler.defender_for_cloud_findings
DefenderForCloudFindings ==
    /\ raised = "not called"
    /\ LET returned == defender_for_cloud_findings(arguments.fetched,
                                                   arguments.denied_resource_group_names)
       IN  /\ findings' = returned.findings
           /\ raised' = returned.exception
    /\ UNCHANGED <<threshold, name, energy_label, tenantVars, coverage, arguments>>

NextDenyList == DefenderForCloudFindings

SpecDenyList == InitDenyList /\ [][NextDenyList]_vars


(***************************************************************************)
(* SpecSubscriptionIds: validate_subscription_ids (validations.py, 86-110) *)
(* called with an argument as a caller writes it, and called again with    *)
(* the list it returned.  A member of a list is a string or the int 5.     *)
(***************************************************************************)
MaxIdListLength == 3      \* members of a list of subscription ids

\* The members a caller lists: two ids, a string of another length, the empty
\* string and a value that is no string.
IdMembers == {SubscriptionIds[1], SubscriptionIds[2], "short", ""} \cup NonStringMembers

IdArguments ==
    {NoneArgument}
        \cup {StrArgument(string) : string \in IdMembers \ NonStringMembers}
        \cup {ListArgument(list) :
                 list \in UNION {[1..n -> IdMembers] : n \in 0..MaxIdListLength}}

InitSubscriptionIds ==
    /\ findings = EmptyBag
    /\ threshold = <<>>
    /\ name = ""
    /\ energy_label = None
    /\ TenantUnused
    /\ arguments \in [subscription_ids : IdArguments, returned : {None}]
    /\ raised = "not called"

\* validate_subscription_ids(subscription_ids)
ValidateSubscriptionIds ==
    /\ raised = "not called"
    /\ LET validated == validate_subscription_ids(arguments.subscription_ids)
       IN  /\ raised' = validated.exception
           /\ arguments' = [arguments EXCEPT
                               !.returned = IF validated.exception = ""
                                            THEN Some(validated.subscription_ids)
                                            ELSE None]
    /\ UNCHANGED <<leafVars, tenantVars, coverage>>

\* validate_subscription_ids(returned), returned being the list of the last call
ValidateReturned ==
    /\ arguments.returned # None
    /\ LET validated == validate_subscription_ids(ListArgument(Value(arguments.returned)))
       IN  /\ raised' = validated.exception
           /\ arguments' = [subscription_ids |-> ListArgument(Value(arguments.returned)),
                            returned |-> IF validated.exception = ""
                                         THEN Some(validated.subscription_ids)
                                         ELSE None]
    /\ UNCHANGED <<leafVars, tenantVars, coverage>>

NextSubscriptionIds == ValidateSubscriptionIds \/ ValidateReturned

SpecSubscriptionIds == InitSubscriptionIds /\ [][NextSubscriptionIds]_vars


(***************************************************************************)
(* What the claims about EnergyLabeler.energy_label speak of.              *)
(***************************************************************************)
LabelRank(label) ==
    CASE label = "A" -> 1 [] label = "B" -> 2 [] label = "C" -> 3
      [] label = "D" -> 4 [] label = "E" -> 5 [] OTHER -> 6

\* The number of findings of a severity, counted row by row.
CountSeverity(df, severity) ==
    LET rows == {row \in BagToSet(df) : row.Severity = severity}
        RECURSIVE Sum(_)
        Sum(S) == IF S = {} THEN 0
                  ELSE LET row == CHOOSE r \in S : TRUE
                       IN  CopiesIn(row, df) + Sum(S \ {row})
    IN  Sum(rows)

\* high <= rule.high AND medium <= rule.medium AND low <= rule.low AND
\* maxDaysOpen < rule.days_open_less_than
Satisfied(rule, df) ==
    /\ CountSeverity(df, "High") <= rule["high"]
    /\ CountSeverity(df, "Medium") <= rule["medium"]
    /\ CountSeverity(df, "Low") <= rule["low"]
    /\ max_days_open(df) < rule["days_open_less_than"]

FirstSatisfied(table, df, i) ==
    /\ i \in 1..Len(table)
    /\ Satisfied(table[i], df)
    /\ \A j \in 1..(i - 1) : ~Satisfied(table[j], df)

Labeled == energy_label # None
Returned == Labeled /\ Value(energy_label).exception = ""

\* C1: for a non-empty finding set and a table accepted by the schema, the label
\* returned is the label of the first rule, in the table's order, whose three
\* ceilings hold the counts of High, Medium and Low findings and whose day bound
\* is above the maximum age; a later rule that is satisfied too never overrides it.
C1_FirstMatchingRuleWins ==
    (Labeled /\ findings # EmptyBag) =>
        \A i \in 1..Len(threshold) :
            FirstSatisfied(threshold, findings, i) =>
                /\ Returned
                /\ Value(energy_label).label = threshold[i]["label"]

\* Two rules with different labels are both satisfied and the first one is returned.
C1_Witness ==
    /\ Returned
    /\ findings # EmptyBag
    /\ Len(threshold) = 2
    /\ Satisfied(threshold[1], findings)
    /\ Satisfied(threshold[2], findings)
    /\ threshold[1]["label"] # threshold[2]["label"]
    /\ Value(energy_label).label = threshold[1]["label"]

C3_FallbackIsF ==
    (Labeled /\ findings # EmptyBag
        /\ \A i \in 1..Len(threshold) : ~Satisfied(threshold[i], findings)) =>
        /\ Returned
        /\ Value(energy_label).label = "F"
        /\ Value(energy_label).number_of_high_findings = CountSeverity(findings, "High")
        /\ Value(energy_label).number_of_medium_findings = CountSeverity(findings, "Medium")
        /\ Value(energy_label).number_of_low_findings = CountSeverity(findings, "Low")
        /\ Value(energy_label).max_days_open = max_days_open(findings)

\* The severity ceilings of a default rule hold the counts of the finding set.
CeilingsMet(rule, df) ==
    /\ CountSeverity(df, "High") <= rule["high"]
    /\ CountSeverity(df, "Medium") <= rule["medium"]
    /\ CountSeverity(df, "Low") <= rule["low"]

\* C4: under the table configuration.py ships for resource groups, a non-empty
\* finding set of a resource group gets the label of the first default rule whose
\* severity ceilings are met: 12 High findings alone get 'C', one Low finding 'A'.
C4_DefaultRuleDecides ==
    LET own == ResourceGroup_get_open_findings(findings, name)
    IN  (Labeled /\ own # EmptyBag) =>
            \A i \in 1..Len(RESOURCE_GROUP_THRESHOLDS) :
                (/\ CeilingsMet(RESOURCE_GROUP_THRESHOLDS[i], own)
                 /\ \A j \in 1..(i - 1) : ~CeilingsMet(RESOURCE_GROUP_THRESHOLDS[j], own)) =>
                    /\ Returned
                    /\ Value(energy_label).label = RESOURCE_GROUP_THRESHOLDS[i]["label"]

\* The finding set with one more High finding, d days open.
WithHighFinding(df, d) ==
    df (+) SetToBag({measurement_data("sub1", "rg1", "High", d)})

\* When the finding set with one more High finding gets a label, the finding set
\* got one too, and one that is not worse.
NeverImprovedByHighFinding ==
    \A d \in 0..MaxDaysOpen :
        LET after == EnergyLabeler_energy_label(WithHighFinding(findings, d), threshold)
        IN  after.exception = "" =>
                /\ Returned
                /\ LabelRank(after.label) >= LabelRank(Value(energy_label).label)

\* C5 as stated: under every table accepted by the schema, the label of a finding
\* set with one more High finding is never better than the label of the set.
C5_Monotone ==
    Labeled => NeverImprovedByHighFinding

BestToWorst(table) ==
    \A i \in 1..Len(table), j \in 1..Len(table) :
        i < j => LabelRank(table[i]["label"]) <= LabelRank(table[j]["label"])

\* C5 amended: under every table accepted by the schema whose rules are in
\* best-to-worst order of their labels, the label of a finding set (the empty set
\* included) with one more High finding is never better than the label of the
\* set: when the larger set gets a label, the set got one that is not worse.
C5_MonotoneBestToWorst ==
    (Labeled /\ BestToWorst(threshold)) => NeverImprovedByHighFinding

\* Under a table in best-to-worst order one more High finding turns 'A' into 'B'.
C5_Witness ==
    /\ Returned
    /\ BestToWorst(threshold)
    /\ Len(threshold) = 2
    /\ Value(energy_label).label = "A"
    /\ \E d \in 0..MaxDaysOpen :
          LET after == EnergyLabeler_energy_label(WithHighFinding(findings, d), threshold)
          IN  after.exception = "" /\ after.label = "B"

(***************************************************************************)
(* What the claims about the tenant label speak of.                        *)
(***************************************************************************)
InScope == Value(_subscriptions_to_be_labeled)

\* The running sum at rule i: the subscriptions whose label is the label of a
\* rule visited so far, each rule adding the subscriptions of its label.
RECURSIVE RunningSum(_, _, _)
RunningSum(table, counter, i) ==
    IF i = 0 THEN 0
    ELSE CopiesIn(table[i]["label"], counter) + RunningSum(table, counter, i - 1)

\* running_sum / number_of_subscriptions * 100 >= rule.percentage at rule i
Qualifies(table, counter, i) ==
    CoverageAtLeast(RunningSum(table, counter, i), BagCardinality(counter),
                    table[i]["percentage"])

\* C6: for a non-empty set of in-scope subscriptions the tenant label is the label
\* of the first rule of the tenant table, in its declared order, at which the
\* running sum of the subscriptions labelled with a rule label visited so far,
\* divided by the number of subscriptions and multiplied by 100, is at least the
\* rule's percentage, and 'F' when no rule qualifies.
C6_FirstQualifyingRule ==
    (/\ Labeled
     /\ _subscriptions_to_be_labeled # None
     /\ Len(InScope) > 0) =>
        /\ Returned
        /\ BagCardinality(label_counter) = Len(InScope)
        /\ \A i \in 1..Len(thresholds) :
               (/\ Qualifies(thresholds, label_counter, i)
                /\ \A j \in 1..(i - 1) : ~Qualifies(thresholds, label_counter, j)) =>
                   Value(energy_label).label = thresholds[i]["label"]
        /\ (\A i \in 1..Len(thresholds) : ~Qualifies(thresholds, label_counter, i)) =>
               Value(energy_label).label = "F"

\* One subscription is 'A' and one 'B': the rule for 'A' does not qualify with the
\* half of them, the rule for 'B' qualifies with the running sum of both.
C6_Witness ==
    /\ Returned
    /\ Len(thresholds) = 2
    /\ thresholds[1]["label"] = "A"
    /\ thresholds[2]["label"] = "B"
    /\ thresholds[2]["percentage"] = 100
    /\ label_counter = SetToBag({"A", "B"})
    /\ subscription_sums = <<1, 1>>
    /\ Value(energy_label).label = "B"

\* The in-scope subscriptions whose label meets or exceeds a label.
MeetsOrExceeds(counter, label) ==
    BagCardinality([l \in {k \in BagToSet(counter) : LabelRank(k) <= LabelRank(label)} |->
                        counter[l]])

\* C7: at every rule the walk of the tenant table visits, the count whose
\* percentage is compared with the rule's percentage is the number of in-scope
\* subscriptions whose label meets or exceeds (is alphabetically <=) the rule's
\* label, also when the table leaves out a label that subscriptions carry.
C7_CoverageMeetsOrExceeds ==
    \A i \in 1..Len(subscription_sums) :
        SumOf(SubSeq(subscription_sums, 1, i)) =
            MeetsOrExceeds(label_counter, thresholds[i]["label"])

\* C8: for counts k <= n, n > 0, and a rule percentage p with k * 100 = p * n, the
\* coverage of k subscriptions out of n is equal to the percentage and the test of
\* the rule is a match.
C8_EqualCoverageMatches ==
    (/\ coverage # <<>>
     /\ coverage[4] # "untested"
     /\ coverage[1] * 100 = coverage[3] * coverage[2]) =>
        coverage[4] = "match"

\* The labels of the resource groups of the subscription, as ResourceGroup labels
\* them with the findings of the subscription.
RECURSIVE ResourceGroupLabels(_, _)
ResourceGroupLabels(df, groups) ==
    IF groups = <<>>
    THEN EmptyBag
    ELSE ResourceGroupLabels(df, Tail(groups))
             (+) SetToBag({ResourceGroup_get_energy_label(df, Head(groups),
                                                          RESOURCE_GROUP_THRESHOLDS).label})

\* The coverage-based label: the first rule of the coverage table at which the
\* share of the labels that meet or exceed the rule's label reaches the rule's
\* percentage, 'F' when there is none.
RECURSIVE CoverageLabel(_, _, _)
CoverageLabel(table, counter, i) ==
    IF i > Len(table) THEN "F"
    ELSE IF 100 * MeetsOrExceeds(counter, table[i]["label"])
                >= table[i]["percentage"] * BagCardinality(counter)
         THEN table[i]["label"]
         ELSE CoverageLabel(table, counter, i + 1)

Worse(first, second) ==
    IF LabelRank(first) >= LabelRank(second) THEN first ELSE second

\* C9: the label of a subscription is the worse of its finding-based label and of
\* the coverage-based label of its resource groups: direct findings that give 'A'
\* with resource groups that give 'C' are labelled 'C'.
C9_WorseOfTheTwoLabels ==
    Labeled =>
        LET own == Subscription_get_open_findings(findings, name)
            finding_based == EnergyLabeler_energy_label(own, threshold).label
            coverage_based == CoverageLabel(SUBSCRIPTION_RESOURCE_GROUP_THRESHOLDS,
                                            ResourceGroupLabels(own, resource_groups), 1)
        IN  /\ Returned
            /\ Value(energy_label).label = Worse(finding_based, coverage_based)

IdsOf(ids) == {ids[i] : i \in DOMAIN ids}

Constructed == name = "tenant" \/ raised # ""

\* The list a caller gave is not empty.
NonEmpty(argument) ==
    \/ argument[1] = "list" /\ Len(argument[2]) > 0
    \/ argument[1] = "str" /\ argument[2] # ""

BothListsGiven ==
    /\ NonEmpty(arguments.allowed_subscription_ids)
    /\ NonEmpty(arguments.denied_subscription_ids)

\* Nothing was classified: no label was returned or kept, no scope was chosen.
NothingClassified ==
    /\ name = ""
    /\ energy_label = None
    /\ _targeted_subscriptions_energy_label = None
    /\ _subscriptions_to_be_labeled = None
    /\ label_counter = EmptyBag
    /\ subscription_sums = <<>>

\* C11: when the allow list and the deny list are both non-empty, the
\* construction of the Tenant fails with MutuallyExclusiveArguments, and no
\* scope has been classified.
C11_MutuallyExclusiveLists ==
    (Constructed /\ BothListsGiven)
        => /\ raised = "MutuallyExclusiveArguments"
           /\ NothingClassified

\* Both lists name subscriptions of the tenant, and the construction failed.
C11_Witness ==
    /\ raised = "MutuallyExclusiveArguments"
    /\ arguments.allowed_subscription_ids = ListArgument(<<subscriptions[1]>>)
    /\ arguments.denied_subscription_ids = ListArgument(<<subscriptions[2]>>)

\* The ids a caller listed: the non-empty strings of the argument.
GivenIds(argument) ==
    IF argument[1] = "None"
    THEN {}
    ELSE IF argument[1] = "str"
         THEN {argument[2]} \ {""}
         ELSE {argument[2][i] : i \in DOMAIN argument[2]} \ {""}

AllGivenIds ==
    GivenIds(arguments.allowed_subscription_ids)
        \cup GivenIds(arguments.denied_subscription_ids)

TenantIds == {subscriptions[i] : i \in DOMAIN subscriptions}

WellFormedIds == {SubscriptionIds[i] : i \in DOMAIN SubscriptionIds}

IdIndex(id) == CHOOSE k \in DOMAIN SubscriptionIds : SubscriptionIds[k] = id

\* A list holds the given ids once each, in ascending order.
SortedListOf(list, ids) ==
    /\ {list[i] : i \in DOMAIN list} = ids
    /\ \A i, j \in DOMAIN list : i < j => IdIndex(list[i]) < IdIndex(list[j])

AcceptedLists ==
    /\ ~BothListsGiven
    /\ AllGivenIds \subseteq WellFormedIds

IdOfDetails(details) ==
    IF "recommendationId" \in DOMAIN details THEN details["recommendationId"] ELSE ""

\* The details the queries of the call yielded.
QueriedDetails ==
    UNION {{arguments.data[arguments.frameworks[i]][k] :
               k \in DOMAIN arguments.data[arguments.frameworks[i]]} :
           i \in DOMAIN arguments.frameworks}

FindingsReturned == raised = ""

\* C13: get_findings returns exactly one Finding for every recommendation id
\* that occurs in a query result, and no Finding of another id, however many
\* frameworks returned the id and whatever its other fields are.
C13_OneFindingPerRecommendationId ==
    FindingsReturned =>
        /\ \A details \in QueriedDetails :
               Cardinality({finding \in findings :
                               IdOfDetails(finding._data) = IdOfDetails(details)}) = 1
        /\ \A finding \in findings : finding._data \in QueriedDetails

\* Two frameworks returned the same recommendation id with different
\* severities, and one Finding was returned.
C13_Witness ==
    /\ FindingsReturned
    /\ Len(arguments.frameworks) = 2
    /\ \E first \in DOMAIN arguments.data[arguments.frameworks[1]],
          second \in DOMAIN arguments.data[arguments.frameworks[2]] :
           LET one == arguments.data[arguments.frameworks[1]][first]
               other == arguments.data[arguments.frameworks[2]][second]
           IN  /\ IdOfDetails(one) = "r1"
               /\ IdOfDetails(other) = "r1"
               /\ one # other
    /\ Cardinality(findings) = 1

(***************************************************************************)
(* What the claims about the findings a label counts speak of.             *)
(***************************************************************************)
\* The states excluded by default.
ExcludedStates == {"notapplicable", "healthy"}

\* A finding that passes excludeSkipped and excludeByState.
Survives(finding) ==
    /\ Lower(Finding_compliance_state(finding)) # "skipped"
    /\ Lower(Finding_state(finding)) \notin ExcludedStates

SurvivingFindings == SelectSeq(arguments, Survives)

\* The label of the labelled object when only the surviving findings are given.
LabelOfSurvivingFindings ==
    IF name \in ObjectResourceGroups
    THEN ResourceGroup_get_energy_label(DataFrame(SurvivingFindings), name, threshold)
    ELSE Subscription_get_energy_label(DataFrame(SurvivingFindings), name, threshold)

\* C14: a finding that is skipped or whose state is excluded contributes
\* nothing to the label of its resource group or of its subscription: the
\* label is the label of the findings that survive the filters.
C14_FilteredFindingsDoNotCount ==
    Labeled => Value(energy_label) = LabelOfSurvivingFindings

\* The findings of the list whose resource group is, whatever the letter
\* case, the labelled resource group.
ScopedByResourceGroup ==
    LET InGroup(finding) == Lower(Finding_resource_group(finding)) = Lower(name)
    IN  SelectSeq(arguments, InGroup)

\* C15: the findings of a resource group are the findings whose resource
\* group is its name, compared without regard to letter case on either side.
C15_ScopingIgnoresCase ==
    (Labeled /\ name \in ObjectResourceGroups)
        => findings = DataFrame(ScopedByResourceGroup)

(***************************************************************************)
(* What the claim about the supplied tables speaks of.                     *)
(***************************************************************************)
\* The label of the labelled object under the table supplied for its kind.
LabelUnderSuppliedTable ==
    IF name = "sub1"
    THEN Subscription_get_energy_label(findings, name, arguments.subscription_thresholds)
    ELSE ResourceGroup_get_energy_label(findings, name,
                                        arguments.resource_group_thresholds)

\* C16: the subscriptions and the resource groups of a tenant are classified
\* with the subscription table and the resource group table supplied to the
\* tenant, not with the module defaults.
C16_SuppliedTablesClassify ==
    Labeled => Value(energy_label) = LabelUnderSuppliedTable

(***************************************************************************)
(* What the claims about repeated reads of the tenant label speak of.      *)
(***************************************************************************)
\* The label the tenant table gives the scope under the findings last given.
LabelOfLastFindings ==
    LET counter == LabelCounter(findings, InScope, threshold)
    IN  TargetedSubscriptionsEnergyLabel(
            TenantWalk(thresholds, 1, counter, Len(InScope), <<>>), counter, Len(InScope))

\* C17: once the label of the tenant has been read, every later read
\* returns the label, best label and worst label of the first read, the
\* stored aggregate is kept and the aggregation (the label counter, the sums
\* of the walk) is not computed again; the subscriptions to be labeled, once
\* read, stay the same.
C17_MemoizationStability ==
    [][/\ (GetEnergyLabel /\ _targeted_subscriptions_energy_label # None)
           => /\ Value(energy_label').exception = ""
              /\ Value(energy_label').label
                     = Value(_targeted_subscriptions_energy_label).label
              /\ Value(energy_label').best_label
                     = Value(_targeted_subscriptions_energy_label).best_label
              /\ Value(energy_label').worst_label
                     = Value(_targeted_subscriptions_energy_label).worst_label
              /\ UNCHANGED <<_targeted_subscriptions_energy_label,
                             label_counter, subscription_sums>>
       /\ _subscriptions_to_be_labeled # None
           => UNCHANGED _subscriptions_to_be_labeled]_vars

\* A later read, given findings that the table labels otherwise, returned the
\* label of the first read.
C17_Witness ==
    /\ _targeted_subscriptions_energy_label # None
    /\ energy_label # None
    /\ Value(energy_label).label = Value(_targeted_subscriptions_energy_label).label
    /\ LabelOfLastFindings.exception = ""
    /\ LabelOfLastFindings.label # Value(energy_label).label

\* Tenant.get_energy_label returned a label.
TenantLabelReturned == energy_label # None /\ Value(energy_label).exception = ""

\* C18: the label Tenant.get_energy_label returns is the label of the
\* findings given to that call, whatever findings earlier calls were given.
C18_LabelOfTheFindingsGiven ==
    TenantLabelReturned
        => /\ LabelOfLastFindings.exception = ""
           /\ Value(energy_label).label = LabelOfLastFindings.label
           /\ Value(energy_label).best_label = LabelOfLastFindings.best_label
           /\ Value(energy_label).worst_label = LabelOfLastFindings.worst_label

\* A number of hundredths written with two decimals and a percent sign.
TwoDecimals(hundredths) ==
    ToString(hundredths \div 100) \o "." \o ToString((hundredths % 100) \div 10)
        \o ToString(hundredths % 10) \o "%"

\* The hundredths nearest to 100 * part / whole (both, when it is half way
\* between two).
NearestHundredths(part, whole) ==
    LET below == (10000 * part) \div whole
    IN  {h \in {below, below + 1} :
            LET distance == IF h * whole >= 10000 * part
                            THEN h * whole - 10000 * part
                            ELSE 10000 * part - h * whole
            IN  2 * distance <= whole}

IntWithin(data, lo, hi) ==
    /\ data.type = "int"
    /\ data.value >= lo
    /\ hi # -1 => data.value <= hi

LettersAtoE == {"A", "B", "C", "D", "E"}

\* The labels of a supplied table are letters A..E, no two rules sharing one.
UniqueLetters(table) ==
    /\ \A i \in DOMAIN table : "label" \in DOMAIN table[i] /\ table[i]["label"] \in LettersAtoE
    /\ \A i, j \in DOMAIN table : table[i]["label"] = table[j]["label"] => i = j

\* A supplied table of severity ceilings as the claim wants it.
CeilingTableWanted(table) ==
    /\ \A i \in DOMAIN table :
           /\ DOMAIN table[i] = {"label", "high", "medium", "low", "days_open_less_than"}
           /\ IntWithin(table[i]["high"], 0, -1)
           /\ IntWithin(table[i]["medium"], 0, -1)
           /\ IntWithin(table[i]["low"], 0, -1)
           /\ IntWithin(table[i]["days_open_less_than"], 1, -1)
    /\ UniqueLetters(table)

\* A supplied tenant table as the claim wants it.
TenantTableWanted(table) ==
    /\ \A i \in DOMAIN table :
           /\ DOMAIN table[i] = {"label", "percentage"}
           /\ IntWithin(table[i]["percentage"], 0, 100)
    /\ UniqueLetters(table)

\* C21: the construction of the labeler gets past the validation of its three
\* tables only if every rule of each has a label A..E, non-negative integer
\* ceilings and a day bound above 0 (a percentage of 0..100 in the tenant table)
\* and no table has two rules with one label; every other table ends the
\* construction with the error of the schema.
C21_TablesValidated ==
    raised # "not called"
        => (raised # "SchemaError"
               <=> /\ CeilingTableWanted(arguments.resource_group_thresholds)
                   /\ TenantTableWanted(arguments.tenant_thresholds)
                   /\ CeilingTableWanted(arguments.subscription_thresholds))

(***************************************************************************)
(* C22                                                                     *)
(***************************************************************************)
\* The object type of the call has no entry in the configuration.
NoEntryForObjectType ==
    \A i \in DOMAIN ENERGY_LABEL_CALCULATION_CONFIG :
        ENERGY_LABEL_CALCULATION_CONFIG[i].object_type # arguments.object_type

\* C22: an EnergyLabeler asked for an object type without an entry in the
\* label-calculation configuration is built without an exception and holds
\* None for the caller to test.
C22_UnknownTypeGivesNone ==
    (raised # "not called" /\ NoEntryForObjectType)
        => /\ raised = ""
           /\ EnergyLabeler__init__(arguments.object_type).energy_label_class = None

(***************************************************************************)
(* C23                                                                     *)
(***************************************************************************)
\* The status change date of the i-th finding given is a date.
HasParsableDate(i) ==
    /\ "statusChangeDate" \in DOMAIN arguments[i]._data
    /\ arguments[i]._data["statusChangeDate"][1] = "date"

\* The ages of the findings given whose date is a date.
ParsableAges ==
    {arguments[i]._data["statusChangeDate"][2] : i \in {j \in DOMAIN arguments : HasParsableDate(j)}}

\* The findings given that have the severity.
GivenOfSeverity(s) == {i \in DOMAIN arguments : arguments[i]._data["severity"] = s}

\* C23: when findings whose status change date is no date are classified, each
\* of them has days_open -1 and is counted under its severity, the
\* classification returns a label, and the label's max_days_open is neither
\* negative nor above the largest age of the findings whose date is a date.
C23_UnparsableDatesDegrade ==
    (energy_label # None /\ \E i \in DOMAIN arguments : ~HasParsableDate(i))
        => /\ \A i \in DOMAIN arguments :
                  ~HasParsableDate(i) => Finding_days_open(arguments[i]) = -1
           /\ Value(energy_label).exception = ""
           /\ Value(energy_label).number_of_high_findings = Cardinality(GivenOfSeverity("High"))
           /\ Value(energy_label).number_of_low_findings = Cardinality(GivenOfSeverity("Low"))
           /\ Value(energy_label).max_days_open >= 0
           /\ \A age \in ParsableAges \cup {0} :
                  (\A other \in ParsableAges : other <= age)
                      => Value(energy_label).max_days_open <= age

(***************************************************************************)
(* C24 and C26                                                             *)
(***************************************************************************)
\* The ages the findings of a finding set carry.
AgesOf(df) == {row.Days_Open : row \in BagToSet(df)}

\* age is the largest days_open of all the findings of the set, 0 for a set
\* without findings.
IsMaximumAge(age, df) ==
    IF AgesOf(df) = {}
    THEN age = 0
    ELSE age \in AgesOf(df) /\ \A other \in AgesOf(df) : other <= age

\* C24 as stated: the max_days_open of the label of a non-empty finding set is
\* the largest days_open of all its findings, those of a severity other than
\* High, Medium and Low included.
C24_MaximumAgeOfAllFindings ==
    (Returned /\ findings # EmptyBag)
        => IsMaximumAge(Value(energy_label).max_days_open, findings)

\* The findings of the set whose severity is Low, Medium or High.
LowOrHigher(df) ==
    LET kept == {row \in BagToSet(df) : row.Severity \in {"Low", "Medium", "High"}}
    IN  [row \in kept |-> df[row]]

\* The rule holds the counts of the finding set and its day bound is above age.
SatisfiedAtAge(rule, df, age) ==
    /\ CountSeverity(df, "High") <= rule["high"]
    /\ CountSeverity(df, "Medium") <= rule["medium"]
    /\ CountSeverity(df, "Low") <= rule["low"]
    /\ age < rule["days_open_less_than"]

\* C24 amended: the max_days_open of the label of a non-empty finding set is
\* the largest days_open of its findings of severity Low, Medium or High, 0
\* when it has none, and that age is the one the rules are tested with: the
\* label is the label of the first rule that holds the counts and whose day
\* bound is above it, 'F' when no rule does.
C24_MaximumAgeOfLowOrHigher ==
    (Returned /\ findings # EmptyBag)
        => LET age == Value(energy_label).max_days_open
           IN  /\ IsMaximumAge(age, LowOrHigher(findings))
               /\ \A i \in 1..Len(threshold) :
                      (/\ SatisfiedAtAge(threshold[i], findings, age)
                       /\ \A j \in 1..(i - 1) :
                              ~SatisfiedAtAge(threshold[j], findings, age))
                          => Value(energy_label).label = threshold[i]["label"]
               /\ (\A i \in 1..Len(threshold) :
                       ~SatisfiedAtAge(threshold[i], findings, age))
                      => Value(energy_label).label = "F"

\* A label was returned for a finding set in which a finding of another
\* severity is older than every finding of severity Low, Medium or High, and
\* a rule whose day bound is not above the older age gave the label.
C24_Witness ==
    /\ Returned
    /\ LowOrHigher(findings) # EmptyBag
    /\ \E row \in BagToSet(findings) :
           /\ row.Severity = "Informational"
           /\ row.Days_Open > Value(energy_label).max_days_open
           /\ \A i \in 1..Len(threshold) : row.Days_Open >= threshold[i]["days_open_less_than"]
    /\ Value(energy_label).label # "F"

\* C26: every label returned has a letter A..F, the counts of the High, Medium
\* and Low findings of the finding set and an age of the finding set (0 for a
\* set none of whose findings has one); no field is the placeholder of the
\* dataclass.
C26_NoPlaceholderEscapes ==
    Returned
        => /\ Value(energy_label).label \in {"A", "B", "C", "D", "E", "F"}
           /\ Value(energy_label).number_of_high_findings = CountSeverity(findings, "High")
           /\ Value(energy_label).number_of_medium_findings = CountSeverity(findings, "Medium")
           /\ Value(energy_label).number_of_low_findings = CountSeverity(findings, "Low")
           /\ Value(energy_label).max_days_open \in AgesOf(findings) \cup {0}
           /\ DEFAULT_FINDINGS \notin {Value(energy_label).number_of_high_findings,
                                       Value(energy_label).number_of_medium_findings,
                                       Value(energy_label).number_of_low_findings,
                                       Value(energy_label).max_days_open}

(***************************************************************************)
(* C25                                                                     *)
(***************************************************************************)
\* C25: for every allow and deny list the validation accepts, the deny list of
\* all the subscriptions of the tenant included, Tenant.get_energy_label
\* returns a label, one of A..F.
C25_TenantLabellingIsTotal ==
    energy_label # None
        => /\ Value(energy_label).exception = ""
           /\ Value(energy_label).label \in {"A", "B", "C", "D", "E", "F"}

(***************************************************************************)
(* C27                                                                     *)
(***************************************************************************)
PositivePercentages(table) == \A i \in DOMAIN table : table[i]["percentage"] > 0

AggregateReturned == energy_label # None /\ Value(energy_label).exception = ""

\* C27: in every aggregate label returned the best label is not after the worst
\* label in the alphabet, and under a tenant table listed best to worst whose
\* percentages are all above 0 the label is not before the best label.
C27_AggregateBounds ==
    AggregateReturned
        => /\ LabelRank(Value(energy_label).best_label)
                  <= LabelRank(Value(energy_label).worst_label)
           /\ (BestToWorst(thresholds) /\ PositivePercentages(thresholds))
                  => LabelRank(Value(energy_label).label)
                         >= LabelRank(Value(energy_label).best_label)

\* Under a table listed best to worst with percentages above 0 the tenant got a
\* label of a rule, behind the best label of its subscriptions, which differs
\* from the worst.
C27_Witness ==
    /\ AggregateReturned
    /\ thresholds # <<>>
    /\ BestToWorst(thresholds)
    /\ PositivePercentages(thresholds)
    /\ Value(energy_label).best_label = "A"
    /\ Value(energy_label).worst_label = "B"
    /\ Value(energy_label).label = "B"

(***************************************************************************)
(* C28                                                                     *)
(***************************************************************************)
\* The frameworks of the call as a list: a single value is the list of it.
FrameworksGiven ==
    IF arguments.frameworks[1] = "list"
    THEN arguments.frameworks[2]
    ELSE <<arguments.frameworks>>

\* The names accepted: those of DefenderForCloud.frameworks.
AcceptedNames == {"Azure Security Benchmark", "Azure CIS 1.1.0"}

NamesGiven ==
    IF arguments.frameworks[1] = "list"
    THEN {arguments.frameworks[2][i] : i \in DOMAIN arguments.frameworks[2]}
    ELSE IF arguments.frameworks[1] = "str" THEN {arguments.frameworks[2]} ELSE {"None"}

\* The call was given the default value of the library.
DefaultFrameworksGiven ==
    /\ arguments.frameworks[1] = "list"
    /\ Len(arguments.frameworks[2]) = Cardinality(DEFAULT_DEFENDER_FOR_CLOUD_FRAMEWORKS)
    /\ NamesGiven = DEFAULT_DEFENDER_FOR_CLOUD_FRAMEWORKS

\* C28: validate_frameworks returns the frameworks given, a single value as a
\* list of one, when they are all frameworks of DefenderForCloud, and raises
\* InvalidFrameworks otherwise; the default value of the library is accepted.
C28_FrameworksValidated ==
    raised # "not called"
        => /\ NamesGiven \subseteq AcceptedNames
                  => /\ raised = ""
                     /\ Len(DefenderForCloud_validate_frameworks(arguments.frameworks).frameworks)
                            = Len(FrameworksGiven)
                     /\ \A i \in DOMAIN FrameworksGiven :
                            DefenderForCloud_validate_frameworks(arguments.frameworks).frameworks[i]
                                = IF arguments.frameworks[1] = "list"
                                  THEN arguments.frameworks[2][i]
                                  ELSE arguments.frameworks[2]
           /\ ~(NamesGiven \subseteq AcceptedNames) => raised = "InvalidFrameworks"
           /\ DefaultFrameworksGiven => raised = ""

(***************************************************************************)
(* C29                                                                     *)
(***************************************************************************)
\* The denied names of the read, none when no deny list is configured.
DeniedNamesGiven ==
    IF arguments.denied_resource_group_names[1] = "None"
    THEN {}
    ELSE {arguments.denied_resource_group_names[2][i] :
             i \in DOMAIN arguments.denied_resource_group_names[2]}

\* The fetched findings whose resource group is the lower-cased form of no
\* denied name.
NotDeniedFindings ==
    {finding \in arguments.fetched :
        \A denied \in DeniedNamesGiven :
            finding._data["resourceGroup"] # Lower(denied)}

\* C29: defender_for_cloud_findings returns the fetched findings whose resource
\* group is not the lower-cased form of a denied name, all of them when no deny
\* list is configured, without an error.
C29_DenyListFilters ==
    raised # "not called"
        => /\ raised = ""
           /\ findings = NotDeniedFindings

(***************************************************************************)
(* C30                                                                     *)
(***************************************************************************)
\* The non-empty members of the list given.
NonEmptyMembers ==
    {arguments.subscription_ids[2][i] : i \in DOMAIN arguments.subscription_ids[2]} \ {""}

=============================================================================
